---- MODULE Spec2Model ----
(***************************************************************************)
(* The analysis and heat-map layer engine of the MITRE ATT&CK tooling      *)
(* (src/blog3_analyzing_mitre_data/analyzer.py, the four-dimension         *)
(* version; src/analyzer.py is the two-dimension snapshot of the same      *)
(* functions).                                                             *)
(*                                                                         *)
(* Python values are modelled as follows.                                  *)
(*   - a dict is a TLA+ function whose DOMAIN is the set of keys present,  *)
(*     so d.get(k, default) and the KeyError of d[k] are both expressible; *)
(*   - an insertion-ordered dict that is iterated (the colour map, the     *)
(*     relationship-type histogram) is a sequence of entries;              *)
(*   - a string is a TLA+ string where the code only builds or compares    *)
(*     it (a comment, a stats key, a generated colour), and the sequence   *)
(*     of its characters where the code inspects it character by character *)
(*     (a colour map key, the hex colour handed to hex_to_hsv);            *)
(*   - a float of the colour arithmetic (colorsys, the interpolation) is  *)
(*     an IEEE 754 double: sign, 53-bit mantissa and exponent, every      *)
(*     operation rounded to nearest, so that int(x * 255) truncates what   *)
(*     Python truncates;                                                   *)
(*   - a float of the statistics (quartiles, mean, 90% of the maximum) is  *)
(*     an exact fraction [n, d] in lowest terms with d > 0. The values     *)
(*     that occur are quarters, means of small integers and tenths, for    *)
(*     which round() of the double agrees with round() of the fraction.    *)
(***************************************************************************)
EXTENDS Integers, Sequences, FiniteSets, TLC

VARIABLES
    techniques,             \* the working set handed to the analysis (list of dicts)
    all_techniques_length,  \* analyze_data's second argument
    hide_uncovered,         \* analyze_data's hide_uncovered argument
    pc,                     \* position of the analysis run
    overall_stats,          \* summary returned by analyze_and_update_techniques
    layer_files,            \* layer documents written by save_navigator_layers, in order
    error,                  \* the exception that ended the run, or NoError
    call,                   \* a direct call of create_navigator_layer: its arguments, the
                            \* map calculate_color_thresholds returned to it and its result
    passes,                 \* per layer type, how far its create_navigator_layer call has
                            \* got when the four calls are run as independent passes
    gradient,               \* a call of generate_color_gradient: its arguments, its locals
                            \* and its outcome
    relationships,          \* data['relationships'], the list map_all_data hands on
    groups,                 \* data['groups']
    d3fend_cache,           \* TechniqueMapper.d3fend_cache
    bindings,               \* the bindings map_d3fend_to_technique has still to visit
    loads                   \* per D3FEND id, the load_d3fend_technique_details calls
                            \* that returned and those that raised

\* the state of the mapping stage, which the analysis never touches
mapper_vars == <<relationships, groups, d3fend_cache, bindings, loads>>

vars == <<techniques, all_techniques_length, hide_uncovered, pc, overall_stats,
          layer_files, error, call, passes, gradient, mapper_vars>>

-----------------------------------------------------------------------------
(* Bounds of the model.                                                    *)

MaxTechniques == 3     \* longest working set
MaxCount == 2          \* largest number of groups of a technique
MaxProbe == 12         \* largest count looked up in a colour map by the properties
OutsideWorkingSet == 2 \* known techniques that are not part of the working set
MaxPassTechniques == 2 \* longest working set of the independent layer passes
MaxSteps == 4          \* largest number of steps a gradient is requested with
MaxRanked == 6         \* longest working set of the runs that rank more than five techniques
MaxRankedCount == 1    \* largest number of groups of a technique in those runs
MaxRelationships == 3    \* relationships in the list handed to the mapper
MaxBindings == 2          \* bindings in the D3FEND data of one technique
MaxLoads == 2             \* loads of one D3FEND id that are followed, per outcome

-----------------------------------------------------------------------------
(* Generic helpers.                                                        *)

Abs(x) == IF x < 0 THEN -x ELSE x

\* The element of a one-element set. {F(x) : x \in {e}} evaluates e once and binds
\* its value to x, the way Python evaluates an argument before the call.
Value(S) == CHOOSE v \in S : TRUE

RECURSIVE Gcd(_, _)
Gcd(a, b) == IF b = 0 THEN a ELSE Value({Gcd(y, x % y) : x \in {a}, y \in {b}})

\* The fraction n/d (d # 0) in lowest terms with a positive denominator.
Frac(n, d) ==
    Value({ [n |-> (IF y < 0 THEN -1 ELSE 1) * (x \div g),
             d |-> (IF y < 0 THEN -1 ELSE 1) * (y \div g)] :
            <<x, y, g>> \in {<<n, d, Gcd(Abs(n), Abs(d))>>} })

FInt(k) == [n |-> k, d |-> 1]

RECURSIVE SeqSum(_)
SeqSum(s) == IF s = <<>> THEN 0 ELSE Head(s) + SeqSum(Tail(s))

RECURSIVE SeqMax(_)
SeqMax(s) == IF Len(s) = 1 THEN s[1]
             ELSE LET m == SeqMax(Tail(s)) IN IF s[1] >= m THEN s[1] ELSE m

Range(s) == {s[i] : i \in 1..Len(s)}

\* sorted(list(set(xs))): the distinct integers of S in ascending order
RECURSIVE SortedSet(_)
SortedSet(S) ==
    IF S = {} THEN <<>>
    ELSE LET m == CHOOSE x \in S : \A y \in S : x <= y
         IN  <<m>> \o SortedSet(S \ {m})

\* sorted(xs) for a list of integers (stable; equal integers are indistinguishable)
RECURSIVE Insert(_, _)
Insert(x, s) == IF s = <<>> THEN <<x>>
                ELSE IF x < Head(s) THEN <<x>> \o s
                ELSE <<Head(s)>> \o Insert(x, Tail(s))

RECURSIVE SortInts(_)
SortInts(s) == IF s = <<>> THEN <<>> ELSE Insert(s[Len(s)], SortInts(SubSeq(s, 1, Len(s) - 1)))

\* round(x) of Python 3 on the fraction num/den (den > 0): to nearest, ties to even
round(num, den) ==
    LET q == num \div den
        r == num % den
    IN  IF 2 * r < den THEN q
        ELSE IF 2 * r > den THEN q + 1
        ELSE IF q % 2 = 0 THEN q ELSE q + 1

-----------------------------------------------------------------------------
(* Strings that the code inspects: sequences of one-character strings.     *)

DecDigits == <<"0", "1", "2", "3", "4", "5", "6", "7", "8", "9">>
HexDigits == <<"0", "1", "2", "3", "4", "5", "6", "7", "8", "9",
               "a", "b", "c", "d", "e", "f">>

DigitValue(digits, c) == (CHOOSE i \in 1..Len(digits) : digits[i] = c) - 1

\* str(n) for an integer n
RECURSIVE StrNat(_)
StrNat(n) == IF n < 10 THEN <<DecDigits[n + 1]>>
             ELSE StrNat(n \div 10) \o <<DecDigits[(n % 10) + 1]>>

str(n) == IF n < 0 THEN <<"-">> \o StrNat(-n) ELSE StrNat(n)

\* key.isdigit(): non-empty and every character a decimal digit
isdigit(key) == Len(key) > 0 /\ \A i \in 1..Len(key) : key[i] \in Range(DecDigits)

\* int(key) for a key that passed isdigit()
RECURSIVE int(_)
int(key) == IF Len(key) = 1 THEN DigitValue(DecDigits, key[1])
            ELSE 10 * int(SubSeq(key, 1, Len(key) - 1)) + DigitValue(DecDigits, key[Len(key)])

more == <<"m", "o", "r", "e">>

\* '{:02x}'.format(n) for 0 <= n <= 255
Hex2(n) == HexDigits[(n \div 16) + 1] \o HexDigits[(n % 16) + 1]

\* int(hex_color[i:i+2], 16) for the two characters from position i (0-based)
ParseHex2(hex_color, i) ==
    16 * DigitValue(HexDigits, hex_color[i + 1]) + DigitValue(HexDigits, hex_color[i + 2])

\* hex_color.lstrip('#')
RECURSIVE lstrip(_)
lstrip(hex_color) ==
    IF hex_color # <<>> /\ Head(hex_color) = "#" THEN lstrip(Tail(hex_color)) ELSE hex_color

-----------------------------------------------------------------------------
(* Natural numbers of any size, as the sequence of their digits in base    *)
(* 2^LimbBits, least significant first and without leading zeros. Every    *)
(* operator binds its operands once, with Value, before it works on them.  *)

LimbBits == 14
Base == 2^LimbBits
Limb(a, i) == IF i <= Len(a) THEN a[i] ELSE 0

NNorm(a) ==
    Value({ SubSeq(x, 1, IF \E i \in 1..Len(x) : x[i] # 0
                         THEN CHOOSE i \in 1..Len(x) :
                                  x[i] # 0 /\ \A j \in (i + 1)..Len(x) : x[j] = 0
                         ELSE 0) : x \in {a} })

RECURSIVE CarryFrom(_, _, _)
CarryFrom(s, i, c) ==
    IF i > Len(s)
    THEN IF c = 0 THEN <<>>
         ELSE Value({ <<t % Base>> \o CarryFrom(s, i, t \div Base) : t \in {c} })
    ELSE Value({ <<t % Base>> \o CarryFrom(s, i + 1, t \div Base) : t \in {s[i] + c} })

NCarry(s) == NNorm(Value({ CarryFrom(x, 1, 0) : x \in {s \o <<>>} }))

NFromInt(n) == NCarry(<<n>>)
NToInt(a) == Value({ Limb(x, 1) + Limb(x, 2) * Base : x \in {a} })

NAdd(a, b) ==
    Value({ NCarry([i \in 1..(IF Len(x) > Len(y) THEN Len(x) ELSE Len(y)) |->
                       Limb(x, i) + Limb(y, i)]) : x \in {a}, y \in {b} })

NSub(a, b) ==
    Value({ NCarry([i \in 1..Len(x) |-> x[i] - Limb(y, i)]) : x \in {a}, y \in {b} })

NMul(a, b) ==
    Value({ IF x = <<>> \/ y = <<>> THEN <<>>
            ELSE NCarry([k \in 1..(Len(x) + Len(y) - 1) |->
                            SeqSum([i \in 1..Len(x) |->
                                       IF k - i + 1 >= 1 /\ k - i + 1 <= Len(y)
                                       THEN x[i] * y[k - i + 1] ELSE 0])]) :
            x \in {a}, y \in {b} })

NCmp(a, b) ==
    Value({ IF Len(x) # Len(y) THEN (IF Len(x) < Len(y) THEN -1 ELSE 1)
            ELSE IF x = y THEN 0
            ELSE Value({ IF x[i] < y[i] THEN -1 ELSE 1 :
                         i \in {CHOOSE i \in 1..Len(x) :
                                   x[i] # y[i] /\ \A j \in (i + 1)..Len(x) : x[j] = y[j]} }) :
            x \in {a}, y \in {b} })

NShl(a, k) ==
    Value({ NCarry([i \in 1..(k \div LimbBits) |-> 0]
                   \o [i \in 1..Len(x) |-> x[i] * 2^(k % LimbBits)]) : x \in {a} })

NShr(a, k) ==
    Value({ NNorm([i \in 1..Len(y) |->
                      (y[i] \div 2^(k % LimbBits))
                          + (Limb(y, i + 1) % 2^(k % LimbBits)) * 2^(LimbBits - (k % LimbBits))]) :
            y \in {IF k \div LimbBits >= Len(a) THEN <<>>
                   ELSE SubSeq(a, (k \div LimbBits) + 1, Len(a))} })

NBitLen(a) ==
    Value({ IF x = <<>> THEN 0
            ELSE (Len(x) - 1) * LimbBits
                     + (CHOOSE n \in 1..LimbBits : 2^(n - 1) <= x[Len(x)] /\ x[Len(x)] < 2^n) :
            x \in {a} })

NBitAt(a, k) == (Limb(a, (k \div LimbBits) + 1) \div 2^(k % LimbBits)) % 2

NLowBitsZero(a, k) ==
    /\ \A i \in 1..(k \div LimbBits) : Limb(a, i) = 0
    /\ Limb(a, (k \div LimbBits) + 1) % 2^(k % LimbBits) = 0

-----------------------------------------------------------------------------
(* Python floats: IEEE 754 binary64. A float is 0 or (-1)^neg * m * 2^e    *)
(* with 2^52 <= m < 2^53; every operation returns the exact result rounded *)
(* to the nearest float, ties to even. The values of the colour arithmetic *)
(* are far from the overflow and underflow thresholds, and the sign of a   *)
(* zero never shows in them.                                               *)

MantissaBits == 53
DZero == [neg |-> FALSE, m |-> <<>>, e |-> 0]

\* (-1)^neg * M * 2^e, with something smaller than 2^e cut off after it when
\* sticky, rounded to MantissaBits bits
DRound(neg, M, e, sticky) ==
    Value({ IF x = <<>> THEN DZero
            ELSE IF len <= MantissaBits
                 THEN [neg |-> neg, m |-> NShl(x, MantissaBits - len), e |-> e - (MantissaBits - len)]
                 ELSE Value({ IF NBitLen(m1) > MantissaBits
                              THEN [neg |-> neg, m |-> NShr(m1, 1), e |-> e + (len - MantissaBits) + 1]
                              ELSE [neg |-> neg, m |-> m1, e |-> e + (len - MantissaBits)] :
                              m1 \in { Value({ IF /\ NBitAt(x, len - MantissaBits - 1) = 1
                                                  /\ \/ sticky
                                                     \/ ~NLowBitsZero(x, len - MantissaBits - 1)
                                                     \/ kept[1] % 2 = 1
                                               THEN NAdd(kept, <<1>>) ELSE kept :
                                               kept \in {NShr(x, len - MantissaBits)} }) } }) :
            <<x, len>> \in { Value({ <<y, NBitLen(y)>> : y \in {M} }) } })

DFromInt(n) == DRound(n < 0, NFromInt(IF n < 0 THEN -n ELSE n), 0, FALSE)

\* the integer a.m * 2^(a.e - e), for e <= a.e
DAligned(a, e) == NShl(a.m, a.e - e)

DSum(x, y) ==
    Value({ IF x.neg = y.neg THEN DRound(x.neg, NAdd(A, B), e, FALSE)
            ELSE IF NCmp(A, B) >= 0 THEN DRound(x.neg, NSub(A, B), e, FALSE)
            ELSE DRound(y.neg, NSub(B, A), e, FALSE) :
            <<A, B, e>> \in { Value({ <<DAligned(x, e), DAligned(y, e), e>> :
                                      e \in {IF x.e < y.e THEN x.e ELSE y.e} }) } })

DAdd(a, b) ==
    Value({ IF x.m = <<>> THEN y ELSE IF y.m = <<>> THEN x ELSE DSum(x, y) :
            x \in {a}, y \in {b} })

DNeg(a) == Value({ IF x.m = <<>> THEN x ELSE [x EXCEPT !.neg = ~x.neg] : x \in {a} })
DSub(a, b) == DAdd(a, DNeg(b))

DMul(a, b) ==
    Value({ DRound(x.neg # y.neg, NMul(x.m, y.m), x.e + y.e, FALSE) : x \in {a}, y \in {b} })

\* the next count binary digits of the quotient r / d (r < d), most significant
\* first, and the remainder left after them
RECURSIVE DivBits(_, _, _)
DivBits(r, d, count) ==
    IF count = 1
    THEN Value({ IF NCmp(r2, d) >= 0 THEN [bits |-> <<1>>, rest |-> NSub(r2, d)]
                                     ELSE [bits |-> <<0>>, rest |-> r2] :
                 r2 \in {NShl(r, 1)} })
    ELSE Value({ Value({ [bits |-> high.bits \o low.bits, rest |-> low.rest] :
                         low \in {DivBits(high.rest, d, count - (count \div 2))} }) :
                 high \in {DivBits(r, d, count \div 2)} })

\* the number whose binary digits, most significant first, are bits
NFromBits(bits) ==
    NNorm([i \in 1..((Len(bits) + LimbBits - 1) \div LimbBits) |->
              SeqSum([t \in 1..LimbBits |->
                         IF (i - 1) * LimbBits + t <= Len(bits)
                         THEN bits[Len(bits) - ((i - 1) * LimbBits + t) + 1] * 2^(t - 1)
                         ELSE 0])])

\* a / b for b # 0: the quotient of the mantissas to QuotientBits binary places,
\* which is two bits or more beyond the mantissa, and whether it is exact
QuotientBits == 55

DDiv(a, b) ==
    Value({ IF x.m = <<>> THEN DZero
            ELSE Value({ Value({ DRound(x.neg # y.neg,
                                        NFromBits((IF first THEN <<1>> ELSE <<0>>) \o q.bits),
                                        x.e - y.e - QuotientBits, q.rest # <<>>) :
                                 q \in {DivBits(IF first THEN NSub(x.m, y.m) ELSE x.m,
                                                y.m, QuotientBits)} }) :
                         first \in {NCmp(x.m, y.m) >= 0} }) :
            x \in {a}, y \in {b} })

\* a < b
DLess(a, b) ==
    Value({ IF x = y THEN FALSE
            ELSE IF x.m = <<>> THEN ~y.neg
            ELSE IF y.m = <<>> THEN x.neg
            ELSE IF x.neg # y.neg THEN x.neg
            ELSE Value({ IF x.neg THEN c > 0 ELSE c < 0 :
                         c \in {IF x.e = y.e THEN NCmp(x.m, y.m)
                                ELSE IF x.e < y.e THEN -1 ELSE 1} }) :
            x \in {a}, y \in {b} })

\* int(x): the integer part, toward zero
DTrunc(a) ==
    Value({ IF x.m = <<>> \/ -x.e >= MantissaBits THEN 0
            ELSE (IF x.neg THEN -1 ELSE 1)
                     * NToInt(IF x.e >= 0 THEN NShl(x.m, x.e) ELSE NShr(x.m, -x.e)) :
            x \in {a} })

DOne == DFromInt(1)
DMax2(a, b) == Value({ IF DLess(x, y) THEN y ELSE x : x \in {a}, y \in {b} })
DMin2(a, b) == Value({ IF DLess(y, x) THEN y ELSE x : x \in {a}, y \in {b} })

\* x % 1.0: fmod(x, 1.0), which is exact, plus 1.0 when it is negative
DMod1(a) ==
    Value({ IF r.m # <<>> /\ r.neg THEN DAdd(r, DOne) ELSE r :
            r \in { Value({ DSub(x, DFromInt(DTrunc(x))) : x \in {a} }) } })

-----------------------------------------------------------------------------
(* colorsys, on floats.                                                    *)

rgb_to_hsv(r, g, b) ==
    Value({ IF minc = maxc THEN <<DZero, DZero, maxc>>
            ELSE Value({ Value({ << DMod1(DDiv(IF x = maxc THEN DSub(bc, gc)
                                               ELSE IF y = maxc
                                                    THEN DSub(DAdd(DFromInt(2), rc), bc)
                                                    ELSE DSub(DAdd(DFromInt(4), gc), rc),
                                               DFromInt(6))),
                                    DDiv(rangec, maxc),
                                    maxc >> :
                                 <<rc, gc, bc>> \in { << DDiv(DSub(maxc, x), rangec),
                                                         DDiv(DSub(maxc, y), rangec),
                                                         DDiv(DSub(maxc, z), rangec) >> } }) :
                         rangec \in {DSub(maxc, minc)} }) :
            <<x, y, z, maxc, minc>> \in
                { Value({ <<x, y, z, DMax2(x, DMax2(y, z)), DMin2(x, DMin2(y, z))>> :
                          x \in {r}, y \in {g}, z \in {b} }) } })

hsv_to_rgb(h, s, v) ==
    Value({ IF y = DZero THEN <<z, z, z>>
            ELSE Value({ Value({ Value({ CASE i % 6 = 0 -> <<z, t, p>>
                                           [] i % 6 = 1 -> <<q, z, p>>
                                           [] i % 6 = 2 -> <<p, z, t>>
                                           [] i % 6 = 3 -> <<p, q, z>>
                                           [] i % 6 = 4 -> <<t, p, z>>
                                           [] i % 6 = 5 -> <<z, p, q>> :
                                         <<p, q, t>> \in
                                             { << DMul(z, DSub(DOne, y)),
                                                  DMul(z, DSub(DOne, DMul(y, f))),
                                                  DMul(z, DSub(DOne, DMul(y, DSub(DOne, f)))) >> } }) :
                                 <<i, f>> \in { Value({ <<k, DSub(h6, DFromInt(k))>> :
                                                        k \in {DTrunc(h6)} }) } }) :
                         h6 \in {DMul(x, DFromInt(6))} }) :
            x \in {h}, y \in {s}, z \in {v} })

-----------------------------------------------------------------------------
(* generate_color_gradient                                                 *)

\* rgb = tuple(int(hex_color[i:i+2], 16) / 255 for i in (0, 2, 4))
hex_to_hsv(hex_color) ==
    Value({ rgb_to_hsv(DDiv(DFromInt(ParseHex2(stripped, 0)), DFromInt(255)),
                       DDiv(DFromInt(ParseHex2(stripped, 2)), DFromInt(255)),
                       DDiv(DFromInt(ParseHex2(stripped, 4)), DFromInt(255))) :
            stripped \in {lstrip(hex_color)} })

hsv_to_hex(hsv) ==
    Value({ "#" \o Hex2(DTrunc(DMul(rgb[1], DFromInt(255))))
                \o Hex2(DTrunc(DMul(rgb[2], DFromInt(255))))
                \o Hex2(DTrunc(DMul(rgb[3], DFromInt(255)))) :
            rgb \in {hsv_to_rgb(hsv[1], hsv[2], hsv[3])} })

\* One iteration of the loop, for i in range(steps) and steps # 1:
\*   ratio = i / (steps - 1)
\*   hsv = tuple(start + (end - start) * ratio for start, end in zip(start_hsv, end_hsv))
\*   gradient.append(hsv_to_hex(hsv))
gradient_color(start_hsv, end_hsv, i, steps) ==
    Value({ hsv_to_hex(<< DAdd(from[1], DMul(DSub(to[1], from[1]), ratio)),
                          DAdd(from[2], DMul(DSub(to[2], from[2]), ratio)),
                          DAdd(from[3], DMul(DSub(to[3], from[3]), ratio)) >>) :
            <<from, to, ratio>> \in
                { <<start_hsv, end_hsv, DDiv(DFromInt(i), DFromInt(steps - 1))>> } })

\* The list returned for steps >= 2 (and the empty list for steps <= 0); for
\* steps = 1 the first ratio is 0 / 0 and the call raises ZeroDivisionError.
generate_color_gradient(start_hex, end_hex, steps) ==
    Value({ <<>> \o [k \in 1..steps |-> gradient_color(start_hsv, end_hsv, k - 1, steps)] :
            start_hsv \in {hex_to_hsv(start_hex)}, end_hsv \in {hex_to_hsv(end_hex)} })


-----------------------------------------------------------------------------
(* Dicts.                                                                  *)

\* d.get(k, default)
get(d, k, default) == IF k \in DOMAIN d THEN d[k] ELSE default

\* d with d[k] = v assigned
put(d, k, v) == [x \in DOMAIN d \cup {k} |-> IF x = k THEN v ELSE d[x]]

\* colors[key] of a colour map (a sequence of [key, color] entries with distinct keys)
Lookup(colors, key) == colors[CHOOSE i \in 1..Len(colors) : colors[i].key = key]

\* f'{count_type}_count'
CountKey(count_type) == count_type \o "_count"

-----------------------------------------------------------------------------
(* statistics.quantiles(data, n=4), method 'exclusive', and statistics.mean *)

\* TRUE when quantiles raises StatisticsError ('must have at least two data points')
quantiles_raises(counts) == Len(counts) < 2

\* the i-th cut point (i = 1..n-1) as a fraction
quantile(counts, n, i) ==
    LET data == SortInts(counts)
        ld == Len(data)
        m == ld + 1
        j0 == (i * m) \div n
        j == IF j0 < 1 THEN 1 ELSE IF j0 > ld - 1 THEN ld - 1 ELSE j0
        delta == i * m - j * n
    IN  Frac(data[j] * (n - delta) + data[j + 1] * delta, n)

quantiles(counts, n) == [i \in 1..(n - 1) |-> quantile(counts, n, i)]

mean(counts) == Frac(SeqSum(counts), Len(counts))

-----------------------------------------------------------------------------
(* The blue scheme of the first, shadowed definition of                    *)
(* default_color_scheme: what the function would return if the second      *)
(* definition were missing.                                                *)

default_color_scheme_shadowed ==
    << [key |-> <<"0">>,      color |-> "#ffffff"],
       [key |-> <<"1">>,      color |-> "#e6e6ff"],
       [key |-> <<"2">>,      color |-> "#b3b3ff"],
       [key |-> <<"4">>,      color |-> "#6666ff"],
       [key |-> <<"6">>,      color |-> "#3333ff"],
       [key |-> <<"1", "1">>, color |-> "#0000cc"],
       [key |-> <<"m", "o", "r", "e">>, color |-> "#000066"] >>

(* default_color_scheme: the module defines it twice; the second           *)
(* definition is the one bound to the name at call time.                   *)

default_color_scheme ==
    << [key |-> <<"0">>,      color |-> "#ffffff"],
       [key |-> <<"1">>,      color |-> "#ff6666"],
       [key |-> <<"2">>,      color |-> "#f94444"],
       [key |-> <<"4">>,      color |-> "#e41b1b"],
       [key |-> <<"6">>,      color |-> "#f10000"],
       [key |-> <<"1", "1">>, color |-> "#950000"],
       [key |-> more,         color |-> "#2b0000"] >>

-----------------------------------------------------------------------------
(* calculate_color_thresholds                                              *)

valid_count_types == {"groups", "mitigations", "relationships", "references"}

\* a variant that reads the counts of the techniques with an identifier only
ExtractCounts_IdentifiedOnly(techs, count_type) ==
    LET identified == SelectSeq(techs, LAMBDA t : get(t, "technique_id", "") # "")
    IN  [i \in 1..Len(identified) |->
            get(identified[i].stats, count_type \o "_count", 0)]

\* counts = [tech['stats'].get(f'{count_type}_count', 0) for tech in techniques]
ExtractCounts(techs, count_type) ==
    [i \in 1..Len(techs) |-> get(techs[i].stats, CountKey(count_type), 0)]

\* a variant with the quartiles only, without the fixed breakpoints 0 and max_count
Thresholds_QuartilesOnly(counts) ==
    LET quarts == quantiles(counts, 4)
    IN  SortedSet({ round(quarts[1].n, quarts[1].d), round(quarts[3].n, quarts[3].d) })

\* a variant without the fixed breakpoint 0
Thresholds_NoZero(counts) ==
    LET max_count == SeqMax(counts)
        quarts == quantiles(counts, 4)
    IN  SortedSet({ round(quarts[1].n, quarts[1].d),
                    round(mean(counts).n, mean(counts).d),
                    round(quarts[3].n, quarts[3].d),
                    round(max_count * 9, 10),
                    max_count })

\* thresholds = sorted(list(set([0, round(q1), round(mean), round(q3), round(max*0.9), max])))
Thresholds(counts) ==
    LET max_count == SeqMax(counts)
        quarts == quantiles(counts, 4)
    IN  SortedSet({ 0,
                    round(quarts[1].n, quarts[1].d),
                    round(mean(counts).n, mean(counts).d),
                    round(quarts[3].n, quarts[3].d),
                    round(max_count * 9, 10),
                    max_count })

\* '#ffffff' and '#000066', as the characters hex_to_hsv slices
White == <<"#", "f", "f", "f", "f", "f", "f">>
DeepBlue == <<"#", "0", "0", "0", "0", "6", "6">>

\* generate_color_gradient('#ffffff', '#000066', steps) for every number of steps
\* calculate_color_thresholds can ask for: at most six distinct thresholds
BlueGradient == [steps \in 2..7 |-> generate_color_gradient(White, DeepBlue, steps)]

\* a variant that puts 'more' in front of the breakpoints
ColorMap_MoreFirst(thresholds, colors) ==
    [i \in 1..(Len(thresholds) + 1) |->
        IF i = 1
        THEN [key |-> <<"m", "o", "r", "e">>, color |-> colors[Len(colors)]]
        ELSE [key |-> str(thresholds[i - 1]), color |-> colors[i - 1]]]

\* a variant in which 'more' repeats the colour of the highest breakpoint
ColorMap_MoreRepeatsLast(thresholds, colors) ==
    [i \in 1..(Len(thresholds) + 1) |->
        IF i <= Len(thresholds)
        THEN [key |-> str(thresholds[i]), color |-> colors[i]]
        ELSE [key |-> <<"m", "o", "r", "e">>, color |-> colors[Len(thresholds)]]]

\* color_map = {str(threshold): {"color": color} for threshold, color in zip(...)}
\* color_map["more"] = {"color": colors[-1]}
ColorMap(thresholds, colors) ==
    [i \in 1..(Len(thresholds) + 1) |->
        IF i <= Len(thresholds)
        THEN [key |-> str(thresholds[i]), color |-> colors[i]]
        ELSE [key |-> more, color |-> colors[Len(colors)]]]

\* a variant in which the quartiles of a single count are the count itself, so
\* that no StatisticsError sends a single technique to the default scheme
calculate_color_thresholds_SinglePoint(techs, count_type) ==
    IF count_type \notin valid_count_types THEN default_color_scheme
    ELSE LET counts == ExtractCounts(techs, count_type)
         IN  IF counts = <<>> THEN default_color_scheme
             ELSE IF SeqMax(counts) = 0 THEN default_color_scheme
             ELSE LET thresholds == IF Len(counts) < 2
                                    THEN SortedSet({0, counts[1], round(counts[1] * 9, 10)})
                                    ELSE Thresholds(counts)
                      colors == BlueGradient[Len(thresholds) + 1]
                  IN  ColorMap(thresholds, colors)

calculate_color_thresholds(techs, count_type) ==
    IF count_type \notin valid_count_types THEN default_color_scheme
    ELSE LET counts == ExtractCounts(techs, count_type)
         IN  IF counts = <<>> THEN default_color_scheme
             ELSE IF SeqMax(counts) = 0 THEN default_color_scheme
             ELSE IF quantiles_raises(counts) THEN default_color_scheme
             ELSE LET thresholds == Thresholds(counts)
                      colors == BlueGradient[Len(thresholds) + 1]
                  IN  ColorMap(thresholds, colors)

-----------------------------------------------------------------------------
(* find_color_for_count                                                    *)

\* keys = sorted(int(key) for key in colors if key.isdigit())
NumericKeys(colors) ==
    SortInts([i \in 1..Len(SelectSeq(colors, LAMBDA e : isdigit(e.key))) |->
                 int(SelectSeq(colors, LAMBDA e : isdigit(e.key))[i].key)])

\* a variant of the scan without the test count > max(keys)
ScanKeys_NoUpperCheck(keys, count) ==
    LET stop == IF \E i \in 1..Len(keys) : keys[i] > count
                THEN (CHOOSE i \in 1..Len(keys) :
                         keys[i] > count /\ \A j \in 1..(i - 1) : keys[j] <= count) - 1
                ELSE Len(keys)
    IN  IF stop = 0 THEN more ELSE str(keys[stop])

\* a variant that selects the key nearest to count, the lower one of two
ScanKeys_NearestKey(keys, count) ==
    IF keys = <<>> \/ count > SeqMax(keys) \/ \A i \in 1..Len(keys) : keys[i] > count
    THEN more
    ELSE str(keys[CHOOSE i \in 1..Len(keys) :
                     /\ \A j \in 1..Len(keys) : Abs(keys[i] - count) <= Abs(keys[j] - count)
                     /\ \A j \in 1..(i - 1) : Abs(keys[i] - count) < Abs(keys[j] - count)])

\* a variant that also gives 'more' to a count equal to the largest key
ScanKeys_MoreAtLargestKey(keys, count) ==
    LET stop == IF \E i \in 1..Len(keys) : keys[i] > count
                THEN (CHOOSE i \in 1..Len(keys) :
                         keys[i] > count /\ \A j \in 1..(i - 1) : keys[j] <= count) - 1
                ELSE Len(keys)
    IN  IF stop = 0 \/ count >= SeqMax(keys) THEN more ELSE str(keys[stop])

\* The scan over the sorted keys: selected_key is the last key before the first
\* key > count; it becomes 'more' when there is none or when count > max(keys).
ScanKeys(keys, count) ==
    LET stop == IF \E i \in 1..Len(keys) : keys[i] > count
                THEN (CHOOSE i \in 1..Len(keys) :
                         keys[i] > count /\ \A j \in 1..(i - 1) : keys[j] <= count) - 1
                ELSE Len(keys)
    IN  IF stop = 0 \/ count > SeqMax(keys) THEN more ELSE str(keys[stop])

selected_key(colors, count) == ScanKeys(NumericKeys(colors), count)

find_color_for_count(colors, count) == Lookup(colors, selected_key(colors, count)).color


-----------------------------------------------------------------------------
(* create_navigator_layer                                                  *)

\* rel_types: relationship_type -> number of non-'mitigates' entries, in
\* insertion order (a sequence of [type, n])
RECURSIVE RelTypes(_, _)
RelTypes(rels, acc) ==
    IF rels = <<>> THEN acc
    ELSE LET rel == Head(rels)
         IN  IF get(rel, "relationship_type", "None") # "mitigates"
             THEN LET rel_type == get(rel, "relationship_type", "unknown")
                      seen == \E i \in 1..Len(acc) : acc[i].type = rel_type
                      acc2 == IF seen
                              THEN [i \in 1..Len(acc) |->
                                       IF acc[i].type = rel_type
                                       THEN [acc[i] EXCEPT !.n = @ + 1] ELSE acc[i]]
                              ELSE Append(acc, [type |-> rel_type, n |-> 1])
                  IN  RelTypes(Tail(rels), acc2)
             ELSE RelTypes(Tail(rels), acc)

\* ", ".join(f"{type_}: {count_}" for type_, count_ in rel_types.items())
RECURSIVE JoinRelTypes(_)
JoinRelTypes(rel_types) ==
    IF rel_types = <<>> THEN ""
    ELSE LET item == Head(rel_types).type \o ": " \o ToString(Head(rel_types).n)
         IN  IF Len(rel_types) = 1 THEN item
             ELSE item \o ", " \o JoinRelTypes(Tail(rel_types))

Comment(technique, count, count_type) ==
    LET base == ToString(count) \o " " \o count_type
        rel_types == RelTypes(get(technique, "related_relationships", <<>>), <<>>)
    IN  IF count_type = "relationships" /\ rel_types # <<>>
        THEN base \o " (" \o JoinRelTypes(rel_types) \o ")"
        ELSE base

\* the entry appended for one technique that has a technique_id
technique_entry(technique, colors, count_type, hide) ==
    LET count == get(technique.stats, CountKey(count_type), 0)
    IN  [ techniqueID |-> technique.technique_id,
          color |-> find_color_for_count(colors, count),
          comment |-> Comment(technique, count, count_type),
          showSubtechniques |-> TRUE,
          enabled |-> (~hide \/ count > 0) ]

\* not technique.get("technique_id")
LacksTechniqueId(technique) == get(technique, "technique_id", "") = ""

RECURSIVE LayerTechniques(_, _, _, _)
LayerTechniques(techs, colors, count_type, hide) ==
    IF techs = <<>> THEN <<>>
    ELSE IF LacksTechniqueId(Head(techs))
         THEN LayerTechniques(Tail(techs), colors, count_type, hide)
         ELSE <<technique_entry(Head(techs), colors, count_type, hide)>>
              \o LayerTechniques(Tail(techs), colors, count_type, hide)

More == <<"M", "o", "r", "e">>

\* create_navigator_layer after its first statement, colors being the map that
\* calculate_color_thresholds(techniques, count_type) returned
BuildLayer(techs, layer_name, count_type, hide, colors) ==
        [ description |-> "Enterprise techniques heat map showing " \o count_type \o " count",
          name |-> layer_name,
          domain |-> "enterprise-attack",
          versions |-> [attack |-> "16", navigator |-> "5.0.0", layer |-> "4.5"],
          gradient |-> [ colors |-> [i \in 1..Len(colors) |-> colors[i].color],
                         minValue |-> 0, maxValue |-> 1 ],
          legendItems |-> [i \in 1..Len(colors) |->
                              [ label |-> IF colors[i].key = more THEN More ELSE colors[i].key,
                                color |-> colors[i].color ]],
          techniques |-> LayerTechniques(techs, colors, count_type, hide),
          showTacticRowBackground |-> TRUE,
          tacticRowBackground |-> "#dddddd",
          selectTechniquesAcrossTactics |-> TRUE,
          selectSubtechniquesWithParent |-> TRUE,
          selectVisibleTechniques |-> FALSE,
          layout |-> [layout |-> "flat", showName |-> TRUE, showID |-> FALSE,
                      expandedSubtechniques |-> TRUE],
          hideDisabled |-> TRUE ]

create_navigator_layer(techs, layer_name, count_type, hide) ==
    BuildLayer(techs, layer_name, count_type, hide,
               calculate_color_thresholds(techs, count_type))

-----------------------------------------------------------------------------
(* analyze_and_update_techniques                                           *)

\* a variant that counts every related relationship, 'mitigates' included
Stats_AllRelationships(technique) ==
    [ groups_count |-> Len(get(technique, "groups", <<>>)),
      mitigations_count |-> Len(get(technique, "mitigations", <<>>)),
      relationships_count |-> Len(get(technique, "related_relationships", <<>>)),
      referenced_count |-> Len(get(technique, "external_references", <<>>)) ]

\* a variant that adds to the counts an earlier analysis left in technique['stats']
Stats_Accumulating(technique) ==
    LET earlier == get(technique, "stats",
                       [ groups_count |-> 0, mitigations_count |-> 0,
                         relationships_count |-> 0, referenced_count |-> 0 ])
        now == Stats_AllRelationships(technique)
    IN  [ groups_count |-> earlier.groups_count + now.groups_count,
          mitigations_count |-> earlier.mitigations_count + now.mitigations_count,
          relationships_count |-> earlier.relationships_count + now.relationships_count,
          referenced_count |-> earlier.referenced_count + now.referenced_count ]

\* technique['stats'] = {...}
Stats(technique) ==
    LET related_rels == SelectSeq(get(technique, "related_relationships", <<>>),
                                  LAMBDA rel : get(rel, "relationship_type", "None") # "mitigates")
    IN  [ groups_count |-> Len(get(technique, "groups", <<>>)),
          mitigations_count |-> Len(get(technique, "mitigations", <<>>)),
          relationships_count |-> Len(related_rels),
          referenced_count |-> Len(get(technique, "external_references", <<>>)) ]

\* a variant that also reverses the list it annotates
Annotate_Reversed(techs) ==
    [i \in 1..Len(techs) |->
        put(techs[Len(techs) + 1 - i], "stats", Stats(techs[Len(techs) + 1 - i]))]

\* for technique in techniques: technique['stats'] = {...}
Annotate(techs) == [i \in 1..Len(techs) |-> put(techs[i], "stats", Stats(techs[i]))]

\* sorted(techniques, key=lambda t: t['stats'][count_type], reverse=True): a stable
\* descending sort; x goes after every element whose count is >= its own
\* a variant that puts x before the elements whose count equals its own
RECURSIVE InsertDesc_BeforeEqual(_, _, _)
InsertDesc_BeforeEqual(x, s, count_type) ==
    IF s = <<>> THEN <<x>>
    ELSE IF Head(s).stats[count_type] > x.stats[count_type]
         THEN <<Head(s)>> \o InsertDesc_BeforeEqual(x, Tail(s), count_type)
         ELSE <<x>> \o s

RECURSIVE InsertDesc(_, _, _)
InsertDesc(x, s, count_type) ==
    IF s = <<>> THEN <<x>>
    ELSE IF Head(s).stats[count_type] >= x.stats[count_type]
         THEN <<Head(s)>> \o InsertDesc(x, Tail(s), count_type)
         ELSE <<x>> \o s

RECURSIVE SortDesc(_, _)
SortDesc(techs, count_type) ==
    IF techs = <<>> THEN <<>>
    ELSE InsertDesc(techs[Len(techs)], SortDesc(SubSeq(techs, 1, Len(techs) - 1), count_type),
                    count_type)

get_top_5(techs, count_type) ==
    LET sorted == SortDesc(techs, count_type)
    IN  SubSeq(sorted, 1, IF Len(sorted) < 5 THEN Len(sorted) ELSE 5)

\* a variant that returns the last maximal element
MaxTechnique_Last(techs, count_type) ==
    techs[CHOOSE i \in 1..Len(techs) :
             /\ \A j \in 1..Len(techs) : techs[j].stats[count_type] <= techs[i].stats[count_type]
             /\ \A j \in (i + 1)..Len(techs) :
                    techs[j].stats[count_type] < techs[i].stats[count_type]]

\* max(techniques, key=lambda t: t['stats'][count_type]): the first maximal element
MaxTechnique(techs, count_type) ==
    techs[CHOOSE i \in 1..Len(techs) :
             /\ \A j \in 1..Len(techs) : techs[j].stats[count_type] <= techs[i].stats[count_type]
             /\ \A j \in 1..(i - 1) : techs[j].stats[count_type] < techs[i].stats[count_type]]

Top5Entries(techs, count_type) ==
    LET top == get_top_5(techs, count_type)
    IN  [i \in 1..Len(top) |->
            [id |-> top[i].technique_id, name |-> top[i].name, count |-> top[i].stats[count_type]]]

StatKeys == <<"groups_count", "mitigations_count", "relationships_count", "referenced_count">>

Total(techs, count_type) == SeqSum([i \in 1..Len(techs) |-> techs[i].stats[count_type]])

\* a variant that divides with //, keeping the whole part of the quotient only
Average_FloorDivision(techs, count_type) ==
    IF Len(techs) > 0 THEN FInt(Total(techs, count_type) \div Len(techs)) ELSE FInt(0)

\* total / total_techniques if total_techniques > 0 else 0
Average(techs, count_type) ==
    IF Len(techs) > 0 THEN Frac(Total(techs, count_type), Len(techs)) ELSE FInt(0)

\* {'id': ..., 'name': ..., '<count_type>': ...} of the first maximal technique
MostEntry(techs, count_type) ==
    LET t == MaxTechnique(techs, count_type)
    IN  put([id |-> t.technique_id, name |-> t.name], count_type, t.stats[count_type])

\* The exception analyze_and_update_techniques ends with on the annotated list, in
\* the order the code reaches them: t['technique_id'] / t['name'] of a top-5 element
\* (KeyError), max() of an empty list (ValueError), the same subscripts of a maximal
\* element (KeyError); NoError when it returns.
NoError == "none"

MissingKey(t) == "technique_id" \notin DOMAIN t \/ "name" \notin DOMAIN t

analyze_error(techs) ==
    IF \E k \in 1..4 : \E i \in 1..Len(get_top_5(techs, StatKeys[k])) :
           MissingKey(get_top_5(techs, StatKeys[k])[i])
    THEN "KeyError"
    ELSE IF techs = <<>> THEN "ValueError"
    ELSE IF \E k \in 1..4 : MissingKey(MaxTechnique(techs, StatKeys[k])) THEN "KeyError"
    ELSE NoError

\* overall_stats, for an annotated list on which nothing raises
Summary(techs, all_length) ==
    [ all_techniques |-> all_length,
      total_used_techniques |-> Len(techs),
      total_groups |-> Total(techs, "groups_count"),
      total_mitigations |-> Total(techs, "mitigations_count"),
      total_relationships |-> Total(techs, "relationships_count"),
      total_references |-> Total(techs, "referenced_count"),
      avg_groups_per_technique |-> Average(techs, "groups_count"),
      avg_mitigations_per_technique |-> Average(techs, "mitigations_count"),
      avg_relationships_per_technique |-> Average(techs, "relationships_count"),
      avg_references_per_technique |-> Average(techs, "referenced_count"),
      most_targeted_technique |-> MostEntry(techs, "groups_count"),
      most_mitigated_technique |-> MostEntry(techs, "mitigations_count"),
      most_related_technique |-> MostEntry(techs, "relationships_count"),
      most_referenced_technique |-> MostEntry(techs, "referenced_count"),
      top_5_by_groups |-> Top5Entries(techs, "groups_count"),
      top_5_by_mitigations |-> Top5Entries(techs, "mitigations_count"),
      top_5_by_relationships |-> Top5Entries(techs, "relationships_count"),
      top_5_by_references |-> Top5Entries(techs, "referenced_count") ]


-----------------------------------------------------------------------------
(* The working sets the analysis is run on.                                *)

TechniqueId(i) == "T" \o ToString(1000 + i)
TechniqueName(i) == "Technique " \o ToString(i)

Rel(type, i) == [relationship_type |-> type]
Items(prefix, n) == [k \in 1..n |-> prefix \o ToString(k)]
Rels(type, i, n) == [k \in 1..n |-> Rel(type, i)]

\* The technique at position i with g groups:
\*   plain      an identified technique with nothing but its groups;
\*   mapped     an identified technique with one mitigation, two references and
\*              g + 1 related relationships besides a stray 'mitigates' record;
\*   bare       a record without the technique_id and mitigations keys;
\*   anonymous  a record whose technique_id is empty and that has no
\*              external_references key.
Technique(i, profile, g) ==
    CASE profile = "plain" ->
            [ technique_id |-> TechniqueId(i), name |-> TechniqueName(i),
              groups |-> Items("G", g), mitigations |-> <<>>,
              related_relationships |-> <<>>, external_references |-> <<>> ]
      [] profile = "mapped" ->
            [ technique_id |-> TechniqueId(i), name |-> TechniqueName(i),
              groups |-> Items("G", g), mitigations |-> Rels("mitigates", i, 1),
              related_relationships |->
                  Rels("mitigates", i, 1) \o Rels("uses", i, g) \o Rels("subtechnique-of", i, 1),
              external_references |-> Items("ref", 2) ]
      [] profile = "bare" ->
            [ name |-> TechniqueName(i),
              groups |-> Items("G", g),
              related_relationships |-> Rels("uses", i, 1),
              external_references |-> Items("ref", g) ]
      [] profile = "anonymous" ->
            [ technique_id |-> "", name |-> TechniqueName(i),
              groups |-> Items("G", g), mitigations |-> Rels("mitigates", i, g),
              related_relationships |-> <<>> ]

\* plain techniques with every number of groups, a mapped technique without groups
\* and one with MaxCount groups, a bare and an anonymous technique
Shapes ==
    ({"plain"} \X (0..MaxCount))
        \cup {<<"mapped", 0>>, <<"mapped", MaxCount>>, <<"bare", 1>>, <<"anonymous", MaxCount>>}

WorkingSets ==
    UNION { { [i \in 1..n |-> Technique(i, shape[i][1], shape[i][2])] :
                shape \in [1..n -> Shapes] } :
            n \in 0..MaxTechniques }

-----------------------------------------------------------------------------
(* The state machine.                                                      *)

NoStats == [all_techniques |-> -1]
NoCall == [count_type |-> "none"]
NoGradient == [state |-> "none"]

\* a create_navigator_layer pass that has not been called yet
Waiting == [state |-> "waiting"]

\* save_navigator_layers' layer_types, in the dict's order
\* {} as a Python dict
EmptyDict == [k \in {} |-> 0]

\* the D3FEND technique ids the bindings can name
D3fendIds == {"FileAnalysis", "NetworkIsolation"}

NoLoads == [id \in D3fendIds |-> [returned |-> 0, raised |-> 0]]

\* nothing loaded for the mapping stage, a TechniqueMapper just constructed
MapperIdle ==
    /\ relationships = <<>>
    /\ groups = <<>>
    /\ d3fend_cache = EmptyDict
    /\ bindings = <<>>
    /\ loads = NoLoads

layer_types == << [type |-> "groups", name |-> "Groups Heat Map"],
                  [type |-> "mitigations", name |-> "Mitigations Heat Map"],
                  [type |-> "relationships", name |-> "Relationships Heat Map"],
                  [type |-> "references", name |-> "References Heat Map"] >>

\* the count_type arguments of direct calls: the four dimensions and one other name
CountTypes == valid_count_types \cup {"tactics"}

Init ==
    /\ techniques \in WorkingSets
    /\ all_techniques_length = Len(techniques) + OutsideWorkingSet
    /\ hide_uncovered = TRUE
    /\ pc = "idle"
    /\ overall_stats = NoStats
    /\ layer_files = <<>>
    /\ error = NoError
    /\ call = NoCall
    /\ passes = [type \in valid_count_types |-> Waiting]
    /\ gradient = NoGradient
    /\ MapperIdle

\* analyze_and_update_techniques(techniques, all_techniques_length), called on its
\* own: the stats are written first, then the summary is built or an exception
\* leaves the function. The techniques are annotated in both cases, so a caller
\* that handles the exception can go on to build layers from them.
AnalyzeAndUpdateTechniques ==
    /\ pc = "idle"
    /\ techniques' = Annotate(techniques)
    /\ error' = analyze_error(techniques')
    /\ overall_stats' = IF error' = NoError
                        THEN Summary(techniques', all_techniques_length)
                        ELSE NoStats
    /\ pc' = "annotated"
    /\ UNCHANGED <<all_techniques_length, hide_uncovered, layer_files, call,
                   passes, gradient, mapper_vars>>

\* create_navigator_layer(techniques, layer_name, count_type, hide_uncovered), called
\* on the annotated techniques
CreateNavigatorLayer(count_type, hide) ==
    /\ pc = "annotated"
    /\ call = NoCall
    /\ LET colors == calculate_color_thresholds(techniques, count_type)
       IN  call' = [ count_type |-> count_type,
                     hide_uncovered |-> hide,
                     colors |-> colors,
                     layer |-> BuildLayer(techniques, "Layer", count_type, hide, colors) ]
    /\ UNCHANGED <<techniques, all_techniques_length, hide_uncovered, pc, overall_stats,
                   layer_files, error,
                   passes, gradient, mapper_vars>>

\* a variant of analyze_data that goes on to save_navigator_layers before
\* analyze_and_update_techniques has run
AnalyzeData_LayersFirst(hide) ==
    /\ pc = "idle"
    /\ hide_uncovered' = hide
    /\ pc' = "save_navigator_layers"
    /\ UNCHANGED <<techniques, all_techniques_length, overall_stats, layer_files, error, call,
                   passes, gradient, mapper_vars>>

\* analyze_data(techniques, all_techniques_length, output_dir, hide_uncovered=hide) up
\* to the return of analyze_and_update_techniques; an exception of that call leaves
\* analyze_data.
AnalyzeData(hide) ==
    /\ pc = "idle"
    /\ hide_uncovered' = hide
    /\ techniques' = Annotate(techniques)
    /\ error' = analyze_error(techniques')
    /\ overall_stats' = IF error' = NoError
                        THEN Summary(techniques', all_techniques_length)
                        ELSE NoStats
    /\ pc' = IF error' = NoError THEN "save_navigator_layers" ELSE "raised"
    /\ UNCHANGED <<all_techniques_length, layer_files, call,
                   passes, gradient, mapper_vars>>

\* One iteration of save_navigator_layers' loop, as analyze_data calls it:
\* save_navigator_layers({'techniques': updated_techniques}, output_dir), so the
\* hide_uncovered parameter of save_navigator_layers has its default, True.
SaveNavigatorLayer ==
    /\ pc = "save_navigator_layers"
    /\ Len(layer_files) < Len(layer_types)
    /\ LET lt == layer_types[Len(layer_files) + 1]
       IN  layer_files' = Append(layer_files,
               [ layer_type |-> lt.type,
                 layer |-> create_navigator_layer(techniques, lt.name, lt.type, TRUE) ])
    /\ UNCHANGED <<techniques, all_techniques_length, hide_uncovered, pc, overall_stats,
                   error, call,
                   passes, gradient, mapper_vars>>

\* analyze_data returns {"overall_stats": ..., "techniques": ...}
Return ==
    /\ pc = "save_navigator_layers"
    /\ Len(layer_files) = Len(layer_types)
    /\ pc' = "done"
    /\ UNCHANGED <<techniques, all_techniques_length, hide_uncovered, overall_stats,
                   layer_files, error, call,
                   passes, gradient, mapper_vars>>

Next ==
    \/ AnalyzeAndUpdateTechniques
    \/ \E count_type \in CountTypes, hide \in BOOLEAN : CreateNavigatorLayer(count_type, hide)
    \/ \E hide \in BOOLEAN : AnalyzeData(hide)
    \/ SaveNavigatorLayer
    \/ Return

Spec == Init /\ [][Next]_vars

-----------------------------------------------------------------------------
(* The four create_navigator_layer calls of save_navigator_layers run as   *)
(* independent passes, in any order and interleaved: each pass first has   *)
(* its colour map computed from the techniques, and later walks the        *)
(* techniques and hands back its document.                                 *)

\* a variant in which the loop of a pass resets the counts it has walked over
TechniquesAfterLayer_DrainsCounts(techs, count_type) ==
    [i \in 1..Len(techs) |-> [techs[i] EXCEPT !.stats = [key \in DOMAIN @ |-> 0]]]

\* the list a create_navigator_layer call leaves behind: the loop reads every
\* technique with get() and subscripts and appends to result_data only
TechniquesAfterLayer(techs, count_type) == techs

LayerName(type) == (CHOOSE lt \in Range(layer_types) : lt.type = type).name

InitAnyOrder ==
    /\ Init
    /\ Len(techniques) <= MaxPassTechniques

\* create_navigator_layer(techniques, layer_name, type, hide_uncovered=True) up to
\* the return of calculate_color_thresholds
StartLayerPass(type) ==
    /\ pc = "save_navigator_layers"
    /\ passes[type] = Waiting
    /\ passes' = [passes EXCEPT ![type] =
                      [state |-> "running",
                       colors |-> calculate_color_thresholds(techniques, type)]]
    /\ UNCHANGED <<techniques, all_techniques_length, hide_uncovered, pc, overall_stats,
                   layer_files, error, call, gradient, mapper_vars>>

\* the rest of the call: the loop over the techniques, the legend, and the
\* document written to <type>_layer.json
FinishLayerPass(type) ==
    /\ pc = "save_navigator_layers"
    /\ passes[type] # Waiting
    /\ passes[type].state = "running"
    /\ passes' = [passes EXCEPT ![type] =
                      [state |-> "finished",
                       layer |-> BuildLayer(techniques, LayerName(type), type, TRUE,
                                            passes[type].colors)]]
    /\ techniques' = TechniquesAfterLayer(techniques, type)
    /\ UNCHANGED <<all_techniques_length, hide_uncovered, pc, overall_stats, layer_files,
                   error, call, gradient, mapper_vars>>

\* analyze_data returns once the four documents are written
ReturnAfterPasses ==
    /\ pc = "save_navigator_layers"
    /\ \A type \in valid_count_types : passes[type].state = "finished"
    /\ pc' = "done"
    /\ UNCHANGED <<techniques, all_techniques_length, hide_uncovered, overall_stats,
                   layer_files, error, call, passes, gradient, mapper_vars>>

NextAnyOrder ==
    \/ \E hide \in BOOLEAN : AnalyzeData(hide)
    \/ \E type \in valid_count_types : StartLayerPass(type)
    \/ \E type \in valid_count_types : FinishLayerPass(type)
    \/ ReturnAfterPasses

SpecAnyOrder == InitAnyOrder /\ [][NextAnyOrder]_vars


-----------------------------------------------------------------------------
(* analyze_and_update_techniques on working sets of more than five         *)
(* techniques, the lists that [:5] cuts.                                   *)

\* identified techniques with nothing but their groups
RankedWorkingSets ==
    UNION { { [i \in 1..n |-> Technique(i, "plain", g[i])] :
                g \in [1..n -> 0..MaxRankedCount] } :
            n \in 0..MaxRanked }

InitRanked ==
    /\ techniques \in RankedWorkingSets
    /\ all_techniques_length = Len(techniques) + OutsideWorkingSet
    /\ hide_uncovered = TRUE
    /\ pc = "idle"
    /\ overall_stats = NoStats
    /\ layer_files = <<>>
    /\ error = NoError
    /\ call = NoCall
    /\ passes = [type \in valid_count_types |-> Waiting]
    /\ gradient = NoGradient
    /\ MapperIdle

NextRanked == AnalyzeAndUpdateTechniques

SpecRanked == InitRanked /\ [][NextRanked]_vars

-----------------------------------------------------------------------------
(* The analysis and the layer builder applied a second time to what they   *)
(* returned.                                                               *)

\* analyze_and_update_techniques(updated_techniques, all_techniques_length), on the
\* list an earlier call returned
AnalyzeAgain ==
    /\ \/ pc = "annotated" /\ call = NoCall
       \/ pc = "rebuilt"
    /\ error = NoError
    /\ techniques' = Annotate(techniques)
    /\ error' = analyze_error(techniques')
    /\ overall_stats' = IF error' = NoError
                        THEN Summary(techniques', all_techniques_length)
                        ELSE NoStats
    /\ pc' = "reanalyzed"
    /\ UNCHANGED <<all_techniques_length, hide_uncovered, layer_files, call,
                   passes, gradient, mapper_vars>>

\* create_navigator_layer called again with the arguments of the call before
RebuildNavigatorLayer ==
    /\ pc = "annotated"
    /\ call # NoCall
    /\ LET colors == calculate_color_thresholds(techniques, call.count_type)
       IN  call' = [ count_type |-> call.count_type,
                     hide_uncovered |-> call.hide_uncovered,
                     colors |-> colors,
                     layer |-> BuildLayer(techniques, "Layer", call.count_type,
                                          call.hide_uncovered, colors) ]
    /\ techniques' = TechniquesAfterLayer(techniques, call.count_type)
    /\ pc' = "rebuilt"
    /\ UNCHANGED <<all_techniques_length, hide_uncovered, overall_stats, layer_files,
                   error, passes, gradient, mapper_vars>>

NextTwice ==
    \/ AnalyzeAndUpdateTechniques
    \/ \E count_type \in CountTypes, hide \in BOOLEAN : CreateNavigatorLayer(count_type, hide)
    \/ RebuildNavigatorLayer
    \/ AnalyzeAgain

SpecTwice == InitAnyOrder /\ [][NextTwice]_vars

-----------------------------------------------------------------------------
(* map_all_data: map_relationships_to_techniques and                       *)
(* map_groups_to_techniques on freshly loaded data.                        *)
(* A STIX id '<type>--<uuid>' is the pair <<type, uuid>>, so that          *)
(* startswith('intrusion-set') is a test of its first component.           *)

\* relationship_map after the loop of prepare_relationship_mapping over rels, begun
\* with relationship_map = acc
RECURSIVE PrepareLoop(_, _)
PrepareLoop(rels, acc) ==
    IF rels = <<>> THEN acc
    ELSE LET target_ref == get(Head(rels), "target_ref", "None")
             started == IF target_ref \notin DOMAIN acc
                        THEN put(acc, target_ref, <<>>)
                        ELSE acc
         IN  PrepareLoop(Tail(rels),
                         put(started, target_ref, Append(started[target_ref], Head(rels))))

prepare_relationship_mapping(rels) == PrepareLoop(rels, EmptyDict)

\* a variant that files every relationship under related_relationships as well
AppendMapped_AlsoRelated(technique, maps_for_technique) ==
    [technique EXCEPT
        !.mitigations = @ \o SelectSeq(maps_for_technique,
                                       LAMBDA m : m.relationship_type = "mitigates"),
        !.related_relationships = @ \o maps_for_technique]

\* the inner loop of map_relationships_to_techniques: each record is appended to
\* technique['mitigations'] or to technique['related_relationships']
RECURSIVE AppendMapped(_, _)
AppendMapped(technique, maps_for_technique) ==
    IF maps_for_technique = <<>> THEN technique
    ELSE LET map_for_technique == Head(maps_for_technique)
         IN  AppendMapped(
                 IF map_for_technique.relationship_type = "mitigates"
                 THEN [technique EXCEPT !.mitigations = Append(@, map_for_technique)]
                 ELSE [technique EXCEPT !.related_relationships = Append(@, map_for_technique)],
                 Tail(maps_for_technique))

map_relationships_to_techniques(techs, rels) ==
    LET relationship_map == prepare_relationship_mapping(rels)
    IN  [i \in 1..Len(techs) |->
            LET technique_id == get(techs[i], "id", "None")
            IN  IF technique_id \in DOMAIN relationship_map
                THEN AppendMapped(techs[i], relationship_map[technique_id])
                ELSE techs[i]]

\* group_map = {group['id']: group for group in groups}
GroupMap(grps) ==
    [id \in { grps[i].id : i \in 1..Len(grps) } |->
        grps[CHOOSE i \in 1..Len(grps) :
                grps[i].id = id /\ \A j \in (i + 1)..Len(grps) : grps[j].id # id]]

\* the groups list map_groups_to_techniques builds for one technique
RECURSIVE GroupRefs(_, _)
GroupRefs(rels, group_map) ==
    IF rels = <<>> THEN <<>>
    ELSE LET relationship == Head(rels)
             rest == GroupRefs(Tail(rels), group_map)
         IN  IF /\ "relationship_type" \in DOMAIN relationship
                /\ relationship.relationship_type = "uses"
                /\ relationship.source_ref[1] = "intrusion-set"
                /\ relationship.source_ref \in DOMAIN group_map
             THEN << [ id |-> group_map[relationship.source_ref].id,
                       name |-> group_map[relationship.source_ref].name,
                       group_id |-> relationship.source_ref,
                       aliases |-> get(group_map[relationship.source_ref], "aliases", <<>>),
                       description |-> get(group_map[relationship.source_ref],
                                           "description", "") ] >> \o rest
             ELSE rest

map_groups_to_techniques(techs, grps) ==
    [i \in 1..Len(techs) |->
        put(techs[i], "groups", GroupRefs(techs[i].related_relationships, GroupMap(grps)))]

\* serialize_techniques: a technique as the loader returns it
Fresh(key, technique_id) ==
    [ id |-> <<"attack-pattern", key>>, technique_id |-> technique_id,
      mitigations |-> <<>>, groups |-> <<>>, related_relationships |-> <<>> ]

FreshWorkingSets ==
    { <<>>,
      << Fresh("a", "T1001") >>,
      << Fresh("a", "T1001"), Fresh("b", "T1002") >> }

\* what a relationship can be: its type and its source
RelationshipKinds ==
    { [relationship_type |-> "mitigates", source_ref |-> <<"course-of-action", "m">>],
      [relationship_type |-> "uses", source_ref |-> <<"intrusion-set", "g">>],
      [relationship_type |-> "uses", source_ref |-> <<"malware", "s">>],
      [relationship_type |-> "subtechnique-of", source_ref |-> <<"attack-pattern", "c">>] }

\* the techniques a relationship can point to; the second one is loaded in the
\* largest working set only
TargetRefs == { <<"attack-pattern", "a">>, <<"attack-pattern", "b">> }

\* serialize_relationships: the k-th relationship of the list, with its own id
Relationship(k, kind, target_ref) ==
    [ id |-> <<"relationship", k>>, relationship_type |-> kind.relationship_type,
      source_ref |-> kind.source_ref, target_ref |-> target_ref ]

RelationshipLists ==
    UNION { { [k \in 1..n |-> Relationship(k, kind[k], target[k])] :
                kind \in [1..n -> RelationshipKinds], target \in [1..n -> TargetRefs] } :
            n \in 0..MaxRelationships }

\* serialize_groups: the group the relationships name is loaded or it is not
GroupLists ==
    { <<>>,
      << [ id |-> <<"intrusion-set", "g">>, name |-> "Group g", aliases |-> <<"g">>,
           description |-> "" ] >> }

InitMapper ==
    /\ techniques \in FreshWorkingSets
    /\ relationships \in RelationshipLists
    /\ groups \in GroupLists
    /\ all_techniques_length = Len(techniques)
    /\ hide_uncovered = TRUE
    /\ pc = "loaded"
    /\ overall_stats = NoStats
    /\ layer_files = <<>>
    /\ error = NoError
    /\ call = NoCall
    /\ passes = [type \in valid_count_types |-> Waiting]
    /\ gradient = NoGradient
    /\ d3fend_cache = EmptyDict
    /\ bindings = <<>>
    /\ loads = NoLoads

\* techniques = map_relationships_to_techniques(techniques, data['relationships'])
MapRelationshipsToTechniques ==
    /\ pc = "loaded"
    /\ techniques' = map_relationships_to_techniques(techniques, relationships)
    /\ pc' = "relationships_mapped"
    /\ UNCHANGED <<all_techniques_length, hide_uncovered, overall_stats, layer_files,
                   error, call, passes, gradient, mapper_vars>>

\* techniques = map_groups_to_techniques(techniques, data['groups'])
MapGroupsToTechniques ==
    /\ pc = "relationships_mapped"
    /\ techniques' = map_groups_to_techniques(techniques, groups)
    /\ pc' = "groups_mapped"
    /\ UNCHANGED <<all_techniques_length, hide_uncovered, overall_stats, layer_files,
                   error, call, passes, gradient, mapper_vars>>

NextMapper ==
    \/ MapRelationshipsToTechniques
    \/ MapGroupsToTechniques

SpecMapper == InitMapper /\ [][NextMapper]_vars

-----------------------------------------------------------------------------
(* TechniqueMapper.map_d3fend_to_technique, called again and again on one  *)
(* mapper; load_d3fend_technique_details is the environment: it returns    *)
(* details, returns nothing (None after a failed request, or an empty      *)
(* document), or raises.                                                   *)

Details == "details"
Nothing == "nothing"

\* binding['def_tech']['value'] as its pieces around '#'; split('#')[-1] is the last
DefTechValue(id) == <<"http://d3fend.mitre.org/ontologies/d3fend.owl", id>>

def_tech_id(binding) == binding.def_tech.value[Len(binding.def_tech.value)]

\* a binding names a defensive technique and has a def_tech_label or has none
Bindings ==
    { [def_tech |-> [value |-> DefTechValue(id)], labelled |-> labelled] :
        id \in D3fendIds, labelled \in BOOLEAN }

\* d3fend_data['off_to_def']['results']['bindings']; the empty list also stands for
\* the calls that return before the loop
BindingLists == UNION { [1..n -> Bindings] : n \in 0..MaxBindings }

\* a variant that loads again when the cached entry is empty
NeedsLoad_RetriesEmpty(cache, id) ==
    IF id \notin DOMAIN cache THEN TRUE ELSE cache[id] = Nothing

\* if def_tech_id not in self.d3fend_cache
NeedsLoad(cache, id) == id \notin DOMAIN cache

InitD3fend ==
    /\ techniques = <<>>
    /\ all_techniques_length = 0
    /\ hide_uncovered = TRUE
    /\ pc = "mapper_ready"
    /\ overall_stats = NoStats
    /\ layer_files = <<>>
    /\ error = NoError
    /\ call = NoCall
    /\ passes = [type \in valid_count_types |-> Waiting]
    /\ gradient = NoGradient
    /\ MapperIdle

\* map_d3fend_to_technique(technique_id, use_cache) up to the loop over the bindings
MapD3fendToTechnique(bs) ==
    /\ pc = "mapper_ready"
    /\ bindings' = bs
    /\ pc' = "mapping"
    /\ UNCHANGED <<techniques, all_techniques_length, hide_uncovered, overall_stats,
                   layer_files, error, call, passes, gradient, relationships, groups,
                   d3fend_cache, loads>>

\* if 'def_tech_label' not in binding: continue
SkipUnlabelled ==
    /\ pc = "mapping"
    /\ bindings # <<>>
    /\ ~Head(bindings).labelled
    /\ bindings' = Tail(bindings)
    /\ UNCHANGED <<techniques, all_techniques_length, hide_uncovered, pc, overall_stats,
                   layer_files, error, call, passes, gradient, relationships, groups,
                   d3fend_cache, loads>>

\* self.d3fend_cache[def_tech_id] = load_d3fend_technique_details(...), the call
\* returning; the rest of the iteration reads the cache
LoadReturns(outcome) ==
    /\ pc = "mapping"
    /\ bindings # <<>>
    /\ Head(bindings).labelled
    /\ NeedsLoad(d3fend_cache, def_tech_id(Head(bindings)))
    /\ loads[def_tech_id(Head(bindings))].returned < MaxLoads
    /\ d3fend_cache' = put(d3fend_cache, def_tech_id(Head(bindings)), outcome)
    /\ loads' = [loads EXCEPT ![def_tech_id(Head(bindings))].returned = @ + 1]
    /\ bindings' = Tail(bindings)
    /\ UNCHANGED <<techniques, all_techniques_length, hide_uncovered, pc, overall_stats,
                   layer_files, error, call, passes, gradient, relationships, groups>>

\* load_d3fend_technique_details raises: nothing is stored, the except clause of
\* map_d3fend_to_technique returns []
LoadRaises ==
    /\ pc = "mapping"
    /\ bindings # <<>>
    /\ Head(bindings).labelled
    /\ NeedsLoad(d3fend_cache, def_tech_id(Head(bindings)))
    /\ loads[def_tech_id(Head(bindings))].raised < MaxLoads
    /\ loads' = [loads EXCEPT ![def_tech_id(Head(bindings))].raised = @ + 1]
    /\ bindings' = <<>>
    /\ pc' = "mapper_ready"
    /\ UNCHANGED <<techniques, all_techniques_length, hide_uncovered, overall_stats,
                   layer_files, error, call, passes, gradient, relationships, groups,
                   d3fend_cache>>

\* the id is in the cache: def_tech_details = self.d3fend_cache[def_tech_id], and the
\* binding is skipped when the details are empty
ReuseCached ==
    /\ pc = "mapping"
    /\ bindings # <<>>
    /\ Head(bindings).labelled
    /\ ~NeedsLoad(d3fend_cache, def_tech_id(Head(bindings)))
    /\ bindings' = Tail(bindings)
    /\ UNCHANGED <<techniques, all_techniques_length, hide_uncovered, pc, overall_stats,
                   layer_files, error, call, passes, gradient, relationships, groups,
                   d3fend_cache, loads>>

\* return d3fend_techniques
ReturnD3fend ==
    /\ pc = "mapping"
    /\ bindings = <<>>
    /\ pc' = "mapper_ready"
    /\ UNCHANGED <<techniques, all_techniques_length, hide_uncovered, overall_stats,
                   layer_files, error, call, passes, gradient, mapper_vars>>

NextD3fend ==
    \/ \E bs \in BindingLists : MapD3fendToTechnique(bs)
    \/ SkipUnlabelled
    \/ \E outcome \in {Details, Nothing} : LoadReturns(outcome)
    \/ LoadRaises
    \/ ReuseCached
    \/ ReturnD3fend

SpecD3fend == InitD3fend /\ [][NextD3fend]_vars

-----------------------------------------------------------------------------
(* generate_color_gradient(start_hex, end_hex, steps), called on its own   *)
(* and followed statement by statement.                                    *)

\* The colours handed over: the two of calculate_color_thresholds, the red of the
\* docstring, and two near-black blues.
Palette ==
    { <<"#", "f", "f", "f", "f", "f", "f">>,
      <<"#", "0", "0", "0", "0", "6", "6">>,
      <<"#", "f", "f", "0", "0", "0", "0">>,
      <<"#", "0", "0", "0", "1", "0", "3">>,
      <<"#", "0", "0", "0", "0", "0", "1">> }

StepsRequested == (-1)..MaxSteps

InitGradient ==
    /\ techniques = <<>>
    /\ all_techniques_length = OutsideWorkingSet
    /\ hide_uncovered = TRUE
    /\ pc = "idle"
    /\ overall_stats = NoStats
    /\ layer_files = <<>>
    /\ error = NoError
    /\ call = NoCall
    /\ passes = [type \in valid_count_types |-> Waiting]
    /\ gradient \in { [state |-> "called", start_hex |-> start_hex, end_hex |-> end_hex,
                        steps |-> steps] :
                       start_hex \in Palette, end_hex \in Palette, steps \in StepsRequested }
    /\ MapperIdle

\* start_hsv = hex_to_hsv(start_hex); end_hsv = hex_to_hsv(end_hex); gradient = []
GradientConvert ==
    /\ gradient.state = "called"
    /\ gradient' = [ state |-> "loop", start_hex |-> gradient.start_hex,
                     end_hex |-> gradient.end_hex, steps |-> gradient.steps,
                     start_hsv |-> hex_to_hsv(gradient.start_hex),
                     end_hsv |-> hex_to_hsv(gradient.end_hex),
                     i |-> 0, gradient |-> <<>> ]
    /\ UNCHANGED <<techniques, all_techniques_length, hide_uncovered, pc, overall_stats,
                   layer_files, error, call, passes, mapper_vars>>

\* an iteration of for i in range(steps) whose ratio = i / (steps - 1) is defined
GradientIteration ==
    /\ gradient.state = "loop"
    /\ gradient.i < gradient.steps
    /\ gradient.steps - 1 # 0
    /\ gradient' = [gradient EXCEPT
                        !.gradient = Append(@, gradient_color(gradient.start_hsv,
                                                              gradient.end_hsv,
                                                              gradient.i, gradient.steps)),
                        !.i = @ + 1]
    /\ UNCHANGED <<techniques, all_techniques_length, hide_uncovered, pc, overall_stats,
                   layer_files, error, call, passes, mapper_vars>>

\* the iteration in which steps - 1 is 0: i / 0 raises ZeroDivisionError, which
\* leaves the function
GradientRaise ==
    /\ gradient.state = "loop"
    /\ gradient.i < gradient.steps
    /\ gradient.steps - 1 = 0
    /\ gradient' = [gradient EXCEPT !.state = "raised"]
    /\ error' = "ZeroDivisionError"
    /\ UNCHANGED <<techniques, all_techniques_length, hide_uncovered, pc, overall_stats,
                   layer_files, call, passes, mapper_vars>>

\* range(steps) is exhausted (at once when steps <= 0): return gradient
GradientReturn ==
    /\ gradient.state = "loop"
    /\ gradient.i >= gradient.steps
    /\ gradient' = [gradient EXCEPT !.state = "returned"]
    /\ UNCHANGED <<techniques, all_techniques_length, hide_uncovered, pc, overall_stats,
                   layer_files, error, call, passes, mapper_vars>>

NextGradient ==
    \/ GradientConvert
    \/ GradientIteration
    \/ GradientRaise
    \/ GradientReturn

SpecGradient == InitGradient /\ [][NextGradient]_vars

-----------------------------------------------------------------------------
(* Vocabulary of the properties.                                           *)

\* The four count dimensions and, per dimension, the stats field that holds a
\* technique's count (groups_count, mitigations_count, relationships_count,
\* referenced_count).
Dimensions == {"groups", "mitigations", "relationships", "references"}

DimensionCount(technique, dimension) ==
    CASE dimension = "groups" -> technique.stats.groups_count
      [] dimension = "mitigations" -> technique.stats.mitigations_count
      [] dimension = "relationships" -> technique.stats.relationships_count
      [] dimension = "references" -> technique.stats.referenced_count

\* the list of counts calculate_color_thresholds reads for count_type
CountsRead(count_type) ==
    [i \in 1..Len(techniques) |-> get(techniques[i].stats, count_type \o "_count", 0)]

\* the input technique a layer entry stands for (identifiers are distinct)
TechniqueOf(entry) ==
    techniques[CHOOSE i \in 1..Len(techniques) :
                  get(techniques[i], "technique_id", "") = entry.techniqueID]

\* P(count_type, hide_uncovered, layer) for every layer built so far
EveryLayer(P(_, _, _)) ==
    /\ \A k \in 1..Len(layer_files) :
           P(layer_files[k].layer_type, TRUE, layer_files[k].layer)
    /\ call # NoCall => P(call.count_type, call.hide_uncovered, call.layer)

\* the breakpoints of a colour map (every key but 'more') as integers, in map order
SignedInt(key) == IF Head(key) = "-" THEN -int(Tail(key)) ELSE int(key)

Breakpoints(colors) ==
    LET numeric == SelectSeq(colors, LAMBDA e : e.key # more)
    IN  [i \in 1..Len(numeric) |-> SignedInt(numeric[i].key)]

StrictlyIncreasing(s) == \A i \in 1..(Len(s) - 1) : s[i] < s[i + 1]

\* position of a colour class: the numeric keys in ascending order, 'more' last
KeyRank(key) == IF key = more THEN 1000000 ELSE int(key)

-----------------------------------------------------------------------------
(* C1: the 'references' layer is built from stats.referenced_count: every   *)
(* entry's comment carries the number of external references of its        *)
(* technique, so a technique with a reference has a non-zero count there.  *)

C1_ReferencesEntries(count_type, hide, layer) ==
    count_type = "references" =>
        \A k \in 1..Len(layer.techniques) :
            LET entry == layer.techniques[k]
                n == TechniqueOf(entry).stats.referenced_count
            IN  /\ entry.comment = ToString(n) \o " references"
                /\ n > 0 => entry.enabled

C1_ReferencesLayerUsesReferencedCount == EveryLayer(C1_ReferencesEntries)

-----------------------------------------------------------------------------
(* C2 as claimed: for every non-empty technique list whose counts for a     *)
(* recognized dimension have a maximum > 0, a single technique included,   *)
(* the numeric keys of the returned map are strictly increasing when       *)
(* sorted and include 0 and the maximum count.                             *)

C2_KeysCoverRange(colors, counts) ==
    LET keys == SortInts(Breakpoints(colors))
    IN  /\ StrictlyIncreasing(keys)
        /\ 0 \in Range(keys)
        /\ SeqMax(counts) \in Range(keys)

C2_NonEmptyListKeys ==
    (/\ call # NoCall
     /\ call.count_type \in Dimensions
     /\ Len(techniques) >= 1
     /\ SeqMax(CountsRead(call.count_type)) > 0)
    => C2_KeysCoverRange(call.colors, CountsRead(call.count_type))

(* C2 as amended: the same for every list of at least two techniques.       *)

C2_TwoOrMoreKeys ==
    (/\ call # NoCall
     /\ call.count_type \in Dimensions
     /\ Len(techniques) >= 2
     /\ SeqMax(CountsRead(call.count_type)) > 0)
    => C2_KeysCoverRange(call.colors, CountsRead(call.count_type))

C2_Witness ==
    /\ call # NoCall
    /\ call.count_type \in Dimensions
    /\ Len(techniques) >= 2
    /\ SeqMax(CountsRead(call.count_type)) = MaxCount + 1
    /\ Len(call.colors) >= 4

-----------------------------------------------------------------------------
(* C3 as claimed: in every returned map the key 'more' exists and has the   *)
(* colour of the highest numeric breakpoint.                                *)

C3_HighestBreakpointColor(colors) ==
    Lookup(colors, str(SeqMax(Breakpoints(colors)))).color

C3_MoreSharesHighestColor ==
    call # NoCall =>
        /\ \E i \in 1..Len(call.colors) : call.colors[i].key = more
        /\ Lookup(call.colors, more).color = C3_HighestBreakpointColor(call.colors)

(* C3 as amended: 'more' exists, as the last key of the map, and has the    *)
(* end colour of the gradient ('#000066' in a data-derived map, '#2b0000'  *)
(* in the default scheme), one step beyond the colour of the highest       *)
(* numeric breakpoint and different from it.                                *)

C3_DataDerived ==
    /\ call.count_type \in Dimensions
    /\ Len(techniques) >= 2
    /\ SeqMax(CountsRead(call.count_type)) > 0

C3_MoreIsEndOfGradient ==
    call # NoCall =>
        LET colors == call.colors
            n == Len(colors)
        IN  /\ colors[n].key = more
            /\ \A i \in 1..(n - 1) : colors[i].key # more
            /\ colors[n].color = IF C3_DataDerived THEN "#000066" ELSE "#2b0000"
            /\ colors[n].color # C3_HighestBreakpointColor(colors)
            /\ colors[n - 1].color = C3_HighestBreakpointColor(colors)

C3_Witness ==
    /\ call # NoCall
    /\ C3_DataDerived
    /\ Len(call.colors) >= 4

-----------------------------------------------------------------------------
(* C4: calculate_color_thresholds returns exactly the fixed red default     *)
(* scheme when the technique list is empty, when every technique's count   *)
(* for the dimension is 0, and when the dimension is not recognized.       *)

C4_FixedDefaultScheme ==
    << [key |-> <<"0">>, color |-> "#ffffff"],
       [key |-> <<"1">>, color |-> "#ff6666"],
       [key |-> <<"2">>, color |-> "#f94444"],
       [key |-> <<"4">>, color |-> "#e41b1b"],
       [key |-> <<"6">>, color |-> "#f10000"],
       [key |-> <<"1", "1">>, color |-> "#950000"],
       [key |-> <<"m", "o", "r", "e">>, color |-> "#2b0000"] >>

C4_DegenerateInput ==
    \/ techniques = <<>>
    \/ call.count_type \notin Dimensions
    \/ \A i \in 1..Len(techniques) : DimensionCount(techniques[i], call.count_type) = 0

C4_DefaultSchemeOnDegenerateInput ==
    (call # NoCall /\ C4_DegenerateInput) => call.colors = C4_FixedDefaultScheme

C4_Witness ==
    /\ call # NoCall
    /\ call.count_type \notin Dimensions
    /\ \E i \in 1..Len(techniques) : techniques[i].stats.groups_count > 0
    /\ call.colors = C4_FixedDefaultScheme

-----------------------------------------------------------------------------
(* C5: on every returned map find_color_for_count is monotonic: for counts  *)
(* c1 <= c2 the class selected for c2 is not earlier than the one for c1   *)
(* (numeric keys ascending, 'more' last), and a count above the largest    *)
(* numeric key gets the colour of 'more'. Monotonicity is stated for each  *)
(* count and its successor, which gives it for every pair c1 <= c2.        *)

C5_LookupIsMonotonic ==
    call # NoCall =>
        LET colors == call.colors
            keys == NumericKeys(colors)
        IN  /\ \A c \in 0..(MaxProbe - 1) :
                   KeyRank(ScanKeys(keys, c)) <= KeyRank(ScanKeys(keys, c + 1))
            /\ \A c \in (SeqMax(keys) + 1)..MaxProbe :
                   /\ selected_key(colors, c) = more
                   /\ find_color_for_count(colors, c) = Lookup(colors, more).color

C5_Witness ==
    /\ call # NoCall
    /\ Len(call.colors) >= 4
    /\ call.colors # C4_FixedDefaultScheme
    /\ selected_key(call.colors, 1) # selected_key(call.colors, MaxCount + 1)
    /\ selected_key(call.colors, MaxProbe) = more


-----------------------------------------------------------------------------
(* C6: in every layer an entry is disabled exactly when hide_uncovered is   *)
(* true and the technique's count for the layer's dimension is 0, and      *)
(* showSubtechniques is always true.                                       *)

C6_EntryFlags(count_type, hide, layer) ==
    count_type \in Dimensions =>
        \A k \in 1..Len(layer.techniques) :
            LET entry == layer.techniques[k]
                count == DimensionCount(TechniqueOf(entry), count_type)
            IN  /\ entry.showSubtechniques
                /\ entry.enabled = ~(hide /\ count = 0)

C6_DisabledIffHiddenAndUncovered == EveryLayer(C6_EntryFlags)

-----------------------------------------------------------------------------
(* C7: the techniques array of a layer has exactly one entry, in input      *)
(* order, per input technique with a non-empty technique_id and none for   *)
(* the others, while the colour map is the one computed from the counts    *)
(* of all input techniques, those without technique_id included.           *)

C7_Identified == SelectSeq(techniques, LAMBDA t : get(t, "technique_id", "") # "")

C7_MapOfAllCounts(count_type) ==
    LET counts == CountsRead(count_type)
    IN  IF count_type \notin Dimensions \/ Len(counts) < 2 \/ SeqMax(counts) = 0
        THEN C4_FixedDefaultScheme
        ELSE ColorMap(Thresholds(counts), BlueGradient[Len(Thresholds(counts)) + 1])

C7_EntriesSkipUnidentifiedOnly ==
    call # NoCall =>
        /\ [k \in 1..Len(call.layer.techniques) |-> call.layer.techniques[k].techniqueID]
               = [k \in 1..Len(C7_Identified) |-> C7_Identified[k].technique_id]
        /\ call.colors = C7_MapOfAllCounts(call.count_type)

\* a technique without identifier holds the largest count, alone, and the map
\* has that count as a key
C7_Witness ==
    /\ call # NoCall
    /\ call.count_type = "mitigations"
    /\ Len(call.layer.techniques) >= 1
    /\ \E i \in 1..Len(techniques) :
           /\ get(techniques[i], "technique_id", "") = ""
           /\ techniques[i].stats.mitigations_count = MaxCount
           /\ \A j \in 1..Len(techniques) :
                  j # i => techniques[j].stats.mitigations_count < MaxCount
    /\ \E k \in 1..Len(call.colors) : call.colors[k].key = str(MaxCount)

-----------------------------------------------------------------------------
(* C8: a technique without technique_id is never fatal: analyze_data on a   *)
(* working set that contains one does not raise and produces the summary.  *)

C8_MissingIdNeverFatal ==
    (/\ pc \in {"raised", "save_navigator_layers", "done"}
     /\ \E i \in 1..Len(techniques) : get(techniques[i], "technique_id", "") = "")
    => (pc # "raised" /\ error = NoError /\ overall_stats # NoStats)

-----------------------------------------------------------------------------
(* C9: analyze_and_update_techniques on an empty collection does not raise  *)
(* and returns a summary with total_used_techniques = 0 and every average  *)
(* equal to 0.                                                              *)

C9_EmptyCollectionSummary ==
    (pc # "idle" /\ techniques = <<>>)
    => /\ error = NoError
       /\ overall_stats # NoStats
       /\ overall_stats.total_used_techniques = 0
       /\ overall_stats.avg_groups_per_technique = FInt(0)
       /\ overall_stats.avg_mitigations_per_technique = FInt(0)
       /\ overall_stats.avg_relationships_per_technique = FInt(0)
       /\ overall_stats.avg_references_per_technique = FInt(0)

-----------------------------------------------------------------------------
(* C10: after analyze_and_update_techniques every technique's stats hold    *)
(* the number of its related_relationships that are not 'mitigates', the   *)
(* size of groups, of mitigations and of external_references, a missing    *)
(* collection counting as 0.                                               *)

C10_Size(technique, field) ==
    IF field \in DOMAIN technique THEN Len(technique[field]) ELSE 0

C10_NonMitigates(technique) ==
    IF "related_relationships" \notin DOMAIN technique THEN 0
    ELSE Cardinality({k \in 1..Len(technique.related_relationships) :
                         technique.related_relationships[k].relationship_type # "mitigates"})

C10_StatsMatchCollections ==
    pc # "idle" =>
        \A i \in 1..Len(techniques) :
            /\ "stats" \in DOMAIN techniques[i]
            /\ techniques[i].stats.relationships_count = C10_NonMitigates(techniques[i])
            /\ techniques[i].stats.groups_count = C10_Size(techniques[i], "groups")
            /\ techniques[i].stats.mitigations_count = C10_Size(techniques[i], "mitigations")
            /\ techniques[i].stats.referenced_count
                   = C10_Size(techniques[i], "external_references")

\* a 'mitigates' record among the related relationships, and a missing collection
C10_Witness ==
    /\ pc = "annotated"
    /\ \E i \in 1..Len(techniques) :
           /\ "stats" \in DOMAIN techniques[i]
           /\ \E k \in 1..Len(techniques[i].related_relationships) :
                  techniques[i].related_relationships[k].relationship_type = "mitigates"
           /\ techniques[i].stats.relationships_count
                  < Len(techniques[i].related_relationships)
    /\ \E j \in 1..Len(techniques) :
           /\ "mitigations" \notin DOMAIN techniques[j]
           /\ techniques[j].stats.mitigations_count = 0


-----------------------------------------------------------------------------
(* C11: for every non-empty working set on which the summary is built, and  *)
(* each dimension, total_<dimension> is the sum of the techniques' counts, *)
(* avg_<dimension>_per_technique is that total divided by the number of    *)
(* techniques, total_used_techniques is the size of the working set and    *)
(* all_techniques is the total that was passed in.                         *)

\* the sum of a dimension's counts: the number of pairs <<i, k>> with k at most
\* the count of technique i
C11_CountSum(dimension) ==
    Cardinality(UNION { {i} \X (1..DimensionCount(techniques[i], dimension)) :
                        i \in 1..Len(techniques) })

C11_TotalsAndAverages ==
    (overall_stats # NoStats /\ Len(techniques) >= 1) =>
        /\ \A dimension \in Dimensions :
               LET avg == overall_stats["avg_" \o dimension \o "_per_technique"]
               IN  /\ overall_stats["total_" \o dimension] = C11_CountSum(dimension)
                   /\ avg.d > 0
                   /\ avg.n * Len(techniques) = C11_CountSum(dimension) * avg.d
        /\ overall_stats.total_used_techniques = Len(techniques)
        /\ overall_stats.all_techniques = all_techniques_length

\* a summary of several techniques whose average number of groups is not whole
C11_Witness ==
    /\ overall_stats # NoStats
    /\ Len(techniques) >= 2
    /\ overall_stats.avg_groups_per_technique.d > 1
    /\ overall_stats.total_relationships > 0
    /\ overall_stats.all_techniques # overall_stats.total_used_techniques

-----------------------------------------------------------------------------
(* C12: in every run of analyze_data, once the run has reached              *)
(* save_navigator_layers, and so whenever a layer has been built, every    *)
(* technique carries a stats record with exactly the four dimensions       *)
(* groups_count, mitigations_count, relationships_count, referenced_count. *)

C12_FullStats(technique) ==
    /\ "stats" \in DOMAIN technique
    /\ DOMAIN technique.stats = Range(StatKeys)
    /\ \A key \in Range(StatKeys) : technique.stats[key] \in Nat

C12_StatsBeforeLayers ==
    (pc \in {"save_navigator_layers", "done"} \/ layer_files # <<>>) =>
        \A i \in 1..Len(techniques) : C12_FullStats(techniques[i])

\* the first layer of a run over several techniques has been built
C12_Witness ==
    /\ pc = "save_navigator_layers"
    /\ Len(layer_files) = 1
    /\ Len(techniques) >= 2

-----------------------------------------------------------------------------
(* C14: analyze_and_update_techniques changes nothing but the stats field   *)
(* of each technique: the collection keeps its length and order, every     *)
(* technique keeps each of its other fields with the same contents in the  *)
(* same order, and stats is the only field added.                          *)

C14_SameButStats(before, after) ==
    /\ Len(after) = Len(before)
    /\ \A i \in 1..Len(before) :
           /\ DOMAIN after[i] = DOMAIN before[i] \cup {"stats"}
           /\ \A field \in DOMAIN before[i] \ {"stats"} : after[i][field] = before[i][field]

C14_OnlyStatsChange ==
    [][(pc = "idle" /\ pc' # "idle") => C14_SameButStats(techniques, techniques')]_vars

\* annotated techniques in ascending order of their groups, one of them with
\* mitigations, relationships and references
C14_Witness ==
    /\ pc = "annotated"
    /\ Len(techniques) >= 2
    /\ techniques[1].stats.groups_count < techniques[2].stats.groups_count
    /\ techniques[2].stats.mitigations_count > 0
    /\ techniques[2].stats.relationships_count > 0
    /\ Len(get(techniques[2], "related_relationships", <<>>))
           > techniques[2].stats.relationships_count

-----------------------------------------------------------------------------
(* C13: the layer-building passes only read the annotated techniques: in    *)
(* whatever order and interleaving the passes for groups, mitigations,     *)
(* relationships and references run, every technique stays as the          *)
(* annotation left it, and every document handed back is the one           *)
(* create_navigator_layer builds from the annotated techniques on its own. *)

C13_LayersIndependentOfOrder ==
    pc \in {"save_navigator_layers", "done"} =>
        /\ \A i \in 1..Len(techniques) :
               /\ "stats" \in DOMAIN techniques[i]
               /\ techniques[i].stats = Stats(techniques[i])
        /\ \A type \in valid_count_types :
               passes[type].state = "finished" =>
                   passes[type].layer =
                       create_navigator_layer(techniques, LayerName(type), type, TRUE)

\* the references and relationships documents are handed back while the groups
\* pass, started before them, is still running and the mitigations pass has not
\* been started
C13_Witness ==
    /\ Len(techniques) >= 2
    /\ passes["references"].state = "finished"
    /\ passes["relationships"].state = "finished"
    /\ passes["groups"].state = "running"
    /\ passes["mitigations"] = Waiting
    /\ \E i \in 1..Len(techniques) : techniques[i].stats.relationships_count > 0
    /\ passes["relationships"].layer.gradient.colors # passes["references"].layer.gradient.colors

-----------------------------------------------------------------------------
(* C17: for a list of two or more counts with a maximum above 0, the case   *)
(* in which the breakpoints are computed from the quartiles, every         *)
(* breakpoint key of the map (every key but 'more') is an integer from 0   *)
(* to the maximum count.                                                   *)

C17_BreakpointsWithinRange ==
    (/\ call # NoCall
     /\ call.count_type \in Dimensions
     /\ Len(techniques) >= 2
     /\ SeqMax(CountsRead(call.count_type)) > 0)
    => \A b \in Range(Breakpoints(call.colors)) :
           0 <= b /\ b <= SeqMax(CountsRead(call.count_type))

-----------------------------------------------------------------------------
(* C18: on every returned map and for every count, find_color_for_count     *)
(* returns the colour of the greatest numeric key that is <= count, also   *)
(* when the count is the largest numeric key; it returns the colour of     *)
(* 'more' when no numeric key is <= count or the count is above every      *)
(* numeric key.                                                            *)

\* the numeric keys of a map, as a set of integers
C18_Keys(colors) == { int(e.key) : e \in { x \in Range(colors) : isdigit(x.key) } }

C18_Greatest(S) == CHOOSE k \in S : \A j \in S : j <= k

C18_ColorOf(colors, key) == (CHOOSE e \in Range(colors) : e.key = key).color

C18_Expected(colors, keys, count) ==
    LET below == { k \in keys : k <= count }
    IN  IF below = {} \/ \A k \in keys : count > k
        THEN C18_ColorOf(colors, more)
        ELSE C18_ColorOf(colors, str(C18_Greatest(below)))

\* find_color_for_count(colors, count) is Lookup(colors, ScanKeys(sorted, count)).color
\* for the sorted numeric keys of colors, which are computed once for all counts
C18_GreatestKeyNotAbove ==
    call # NoCall =>
        LET sorted == NumericKeys(call.colors)
            keys == C18_Keys(call.colors)
        IN  \A count \in (-1)..MaxProbe :
                Lookup(call.colors, ScanKeys(sorted, count)).color
                    = C18_Expected(call.colors, keys, count)

\* a map computed from the data, with a count that lies between two keys and
\* nearer to the upper one, and with distinct colours for the largest key and 'more'
C18_Witness ==
    /\ call # NoCall
    /\ call.colors # default_color_scheme
    /\ \E count \in 0..MaxProbe :
           \E k \in C18_Keys(call.colors) :
               /\ k > count
               /\ k - count < count - C18_Greatest({ j \in C18_Keys(call.colors) : j <= count })
    /\ C18_ColorOf(call.colors, str(C18_Greatest(C18_Keys(call.colors))))
           # C18_ColorOf(call.colors, more)

-----------------------------------------------------------------------------
(* C19: for a working set of exactly one technique whose count for the      *)
(* dimension is positive, calculate_color_thresholds returns the default   *)
(* scheme, and create_navigator_layer returns a complete document: every   *)
(* field of the layer, the gradient and the legend of the default scheme,  *)
(* and an entry, coloured from that scheme, for the technique if it has an *)
(* identifier.                                                             *)

C19_LayerFields ==
    { "description", "name", "domain", "versions", "gradient", "legendItems", "techniques",
      "showTacticRowBackground", "tacticRowBackground", "selectTechniquesAcrossTactics",
      "selectSubtechniquesWithParent", "selectVisibleTechniques", "layout", "hideDisabled" }

C19_CompleteLayer(layer, colors, techs) ==
    /\ DOMAIN layer = C19_LayerFields
    /\ layer.gradient.colors = [i \in 1..Len(colors) |-> colors[i].color]
    /\ Len(layer.legendItems) = Len(colors)
    /\ \A i \in 1..Len(colors) : layer.legendItems[i].color = colors[i].color
    /\ Len(layer.techniques) = Cardinality({ i \in 1..Len(techs) :
                                                get(techs[i], "technique_id", "") # "" })
    /\ \A k \in 1..Len(layer.techniques) :
           /\ \E i \in 1..Len(techs) :
                  get(techs[i], "technique_id", "") = layer.techniques[k].techniqueID
           /\ \E i \in 1..Len(colors) : colors[i].color = layer.techniques[k].color

C19_SingleTechniqueFallsBack ==
    (/\ call # NoCall
     /\ call.count_type \in Dimensions
     /\ Len(techniques) = 1
     /\ DimensionCount(techniques[1], call.count_type) > 0)
    => /\ call.colors = C4_FixedDefaultScheme
       /\ C19_CompleteLayer(call.layer, C4_FixedDefaultScheme, techniques)

\* a single identified technique with two groups, whose groups layer was built:
\* the count that statistics.quantiles is handed is the single value 2
C19_Witness ==
    /\ call # NoCall
    /\ call.count_type = "groups"
    /\ Len(techniques) = 1
    /\ CountsRead("groups") = <<2>>
    /\ Len(call.layer.techniques) = 1
    /\ call.layer.techniques[1].color = "#f94444"

-----------------------------------------------------------------------------
(* C20: for every non-empty working set on which the summary is built, and  *)
(* each dimension, the 'most X' entry of the summary carries the maximum   *)
(* count of the dimension and the identifier and name of the first         *)
(* technique, in input order, that has that count.                         *)

C20_MostField(dimension) ==
    CASE dimension = "groups" -> "most_targeted_technique"
      [] dimension = "mitigations" -> "most_mitigated_technique"
      [] dimension = "relationships" -> "most_related_technique"
      [] dimension = "references" -> "most_referenced_technique"

C20_CountField(dimension) ==
    IF dimension = "references" THEN "referenced_count" ELSE dimension \o "_count"

C20_MostIsFirstMaximum ==
    (overall_stats # NoStats /\ Len(techniques) >= 1) =>
        \A dimension \in Dimensions :
            LET most == overall_stats[C20_MostField(dimension)]
                count == most[C20_CountField(dimension)]
            IN  /\ \A i \in 1..Len(techniques) :
                       DimensionCount(techniques[i], dimension) <= count
                /\ \E i \in 1..Len(techniques) :
                       /\ DimensionCount(techniques[i], dimension) = count
                       /\ \A j \in 1..(i - 1) :
                              DimensionCount(techniques[j], dimension) < count
                       /\ most.id = techniques[i].technique_id
                       /\ most.name = techniques[i].name

\* a summary of a working set whose second and third technique share the
\* largest number of groups
C20_Witness ==
    /\ overall_stats # NoStats
    /\ Len(techniques) = 3
    /\ techniques[1].stats.groups_count < techniques[2].stats.groups_count
    /\ techniques[2].stats.groups_count = techniques[3].stats.groups_count
    /\ overall_stats.most_targeted_technique.id = techniques[2].technique_id

-----------------------------------------------------------------------------
(* C15: for any two endpoint colours and any steps >= 2, the list that      *)
(* generate_color_gradient returns has exactly steps colours, its first is *)
(* the start colour and its last is the end colour.                        *)

\* the string of a sequence of characters
RECURSIVE C15_Text(_)
C15_Text(chars) == IF chars = <<>> THEN "" ELSE Head(chars) \o C15_Text(Tail(chars))

C15_GradientKeepsEndpoints ==
    (gradient.state = "returned" /\ gradient.steps >= 2) =>
        /\ Len(gradient.gradient) = gradient.steps
        /\ gradient.gradient[1] = C15_Text(gradient.start_hex)
        /\ gradient.gradient[gradient.steps] = C15_Text(gradient.end_hex)

-----------------------------------------------------------------------------
(* C16: a call of generate_color_gradient with steps < 2 (1, 0 or negative) *)
(* ends in an error and never returns a list.                              *)

C16_FewerThanTwoStepsRaises ==
    (gradient.state # "none" /\ gradient.steps < 2) => gradient.state # "returned"

-----------------------------------------------------------------------------
(* C21: for each dimension, top_5_by_<dimension> lists exactly min(5, n)    *)
(* techniques of the working set, in non-increasing order of the           *)
(* dimension's count, techniques with equal counts in their input order,   *)
(* and no technique left out has a count greater than a listed one.        *)

\* the position in the working set of the technique a top-5 entry names
C21_Position(entry) ==
    CHOOSE i \in 1..Len(techniques) :
        techniques[i].technique_id = entry.id /\ techniques[i].name = entry.name

C21_Ranked(top, dimension) ==
    LET listed == { C21_Position(top[k]) : k \in 1..Len(top) }
    IN  /\ Len(top) = (IF Len(techniques) < 5 THEN Len(techniques) ELSE 5)
        /\ \A k \in 1..Len(top) :
               /\ \E i \in 1..Len(techniques) :
                      techniques[i].technique_id = top[k].id /\ techniques[i].name = top[k].name
               /\ top[k].count = DimensionCount(techniques[C21_Position(top[k])], dimension)
        /\ Cardinality(listed) = Len(top)
        /\ \A k \in 1..(Len(top) - 1) :
               \/ top[k].count > top[k + 1].count
               \/ /\ top[k].count = top[k + 1].count
                  /\ C21_Position(top[k]) < C21_Position(top[k + 1])
        /\ \A j \in (1..Len(techniques)) \ listed :
               \A k \in 1..Len(top) : DimensionCount(techniques[j], dimension) <= top[k].count

C21_TopFiveStableOrder ==
    overall_stats # NoStats =>
        \A dimension \in Dimensions :
            C21_Ranked(overall_stats["top_5_by_" \o dimension], dimension)

\* six techniques of which the last two have a group: they are listed first, then
\* the first three in their input order, and the fourth is left out
C21_Witness ==
    /\ overall_stats # NoStats
    /\ Len(techniques) = 6
    /\ Len(overall_stats.top_5_by_groups) = 5
    /\ overall_stats.top_5_by_groups[1].id = techniques[5].technique_id
    /\ overall_stats.top_5_by_groups[2].id = techniques[6].technique_id
    /\ overall_stats.top_5_by_groups[2].count > overall_stats.top_5_by_groups[3].count
    /\ overall_stats.top_5_by_groups[3].id = techniques[1].technique_id
    /\ overall_stats.top_5_by_groups[4].id = techniques[2].technique_id
    /\ overall_stats.top_5_by_groups[5].id = techniques[3].technique_id
    /\ techniques[4].stats.groups_count = overall_stats.top_5_by_groups[5].count

-----------------------------------------------------------------------------
(* C22: for each of the four dimensions and every technique entry of a      *)
(* layer, the comment is exactly '<count> <dimension>', count being the    *)
(* technique's count for that dimension, and nothing follows it.           *)

C22_EntryComments(count_type, hide, layer) ==
    count_type \in Dimensions =>
        \A k \in 1..Len(layer.techniques) :
            layer.techniques[k].comment =
                ToString(DimensionCount(TechniqueOf(layer.techniques[k]), count_type))
                    \o " " \o count_type

C22_CommentIsCountAndDimension == EveryLayer(C22_EntryComments)

-----------------------------------------------------------------------------
(* C23: in every layer document gradient.colors is the sequence of the      *)
(* threshold map's colours in map order, the breakpoints ascending and     *)
(* 'more' last; legendItems has the same length and order, its labels are  *)
(* the breakpoints as strings and the last label is 'More': one entry per  *)
(* breakpoint plus one.                                                    *)

C23_LegendOf(colors, layer) ==
    LET n == Len(colors)
    IN  /\ n = Len(Breakpoints(colors)) + 1
        /\ StrictlyIncreasing(Breakpoints(colors))
        /\ colors[n].key = more
        /\ Len(layer.gradient.colors) = n
        /\ Len(layer.legendItems) = n
        /\ \A i \in 1..n :
               /\ layer.gradient.colors[i] = colors[i].color
               /\ layer.legendItems[i].color = colors[i].color
        /\ \A i \in 1..(n - 1) : layer.legendItems[i].label = str(Breakpoints(colors)[i])
        /\ layer.legendItems[n].label = <<"M", "o", "r", "e">>

C23_LayerLegend(count_type, hide, layer) ==
    C23_LegendOf(calculate_color_thresholds(techniques, count_type), layer)

C23_GradientAndLegendFollowMap == EveryLayer(C23_LayerLegend)

\* a layer whose map was computed from the data and has four breakpoints or more
C23_Witness ==
    /\ call # NoCall
    /\ call.colors # default_color_scheme
    /\ Len(call.layer.legendItems) >= 5
    /\ call.layer.legendItems[2].label # <<"1">>
    /\ call.layer.gradient.colors[Len(call.layer.legendItems)] = "#000066"

-----------------------------------------------------------------------------
(* C24: the analysis carries no state between runs.  A second              *)
(* analyze_and_update_techniques on the list the first one returned leaves *)
(* every technique's stats as they were and returns the same summary, and  *)
(* a layer built again from the same annotated techniques is the same      *)
(* document.                                                               *)

C24_SecondRunSame ==
    /\ pc' = "reanalyzed" =>
          /\ Len(techniques') = Len(techniques)
          /\ \A i \in 1..Len(techniques) : techniques'[i].stats = techniques[i].stats
          /\ techniques' = techniques
          /\ overall_stats' = overall_stats
          /\ error' = NoError
    /\ pc' = "rebuilt" => call'.layer = call.layer /\ call' = call

C24_NoStateBetweenRuns == [][C24_SecondRunSame]_vars

\* a second analysis of counted techniques, after a layer was built twice
C24_Witness ==
    /\ pc = "reanalyzed"
    /\ call # NoCall
    /\ Len(techniques) >= 2
    /\ \E i \in 1..Len(techniques) :
          techniques[i].stats.groups_count > 0 /\ techniques[i].stats.relationships_count > 0
    /\ overall_stats.most_targeted_technique.groups_count > 0

-----------------------------------------------------------------------------
(* C25: the hide_uncovered given to analyze_data is the visibility policy  *)
(* of every layer it saves; with hide_uncovered = False every technique    *)
(* entry of every saved layer is enabled, those with count 0 included.     *)

C25_PolicyReachesSavedLayers ==
    (pc \in {"save_navigator_layers", "done"} /\ ~hide_uncovered) =>
        \A k \in 1..Len(layer_files) :
            \A i \in 1..Len(layer_files[k].layer.techniques) :
                layer_files[k].layer.techniques[i].enabled

-----------------------------------------------------------------------------
(* C26: in a layer built with a map computed from the data (not the        *)
(* default scheme) no technique entry takes its colour from the 'more'     *)
(* key: 0 and the maximum count are numeric keys of the map, no count is   *)
(* negative or above the maximum, so every count selects a numeric key.    *)

C26_LayerAvoidsMore(count_type, hide, layer) ==
    LET colors == calculate_color_thresholds(techniques, count_type)
        keys == NumericKeys(colors)
    IN  colors # default_color_scheme =>
            /\ \E i \in 1..Len(keys) : keys[i] = 0
            /\ \E i \in 1..Len(keys) : keys[i] = SeqMax(CountsRead(count_type))
            /\ \A k \in 1..Len(layer.techniques) :
                   LET count == get(TechniqueOf(layer.techniques[k]).stats,
                                    CountKey(count_type), 0)
                   IN  /\ 0 <= count
                       /\ count <= SeqMax(CountsRead(count_type))
                       /\ ScanKeys(keys, count) # more
                       /\ isdigit(ScanKeys(keys, count))
                       /\ layer.techniques[k].color
                              = Lookup(colors, ScanKeys(keys, count)).color

C26_NoEntryColoredByMore == EveryLayer(C26_LayerAvoidsMore)

\* a layer with a map computed from the data, with an entry at the maximum count and
\* an entry at count 0
C26_Witness ==
    /\ call # NoCall
    /\ call.colors # default_color_scheme
    /\ \E k \in 1..Len(call.layer.techniques) :
           get(TechniqueOf(call.layer.techniques[k]).stats, CountKey(call.count_type), 0)
               = SeqMax(CountsRead(call.count_type))
    /\ \E k \in 1..Len(call.layer.techniques) :
           get(TechniqueOf(call.layer.techniques[k]).stats, CountKey(call.count_type), 0) = 0

-----------------------------------------------------------------------------
(* C27: in every map computed from the data the breakpoint 0 is the lowest *)
(* key and carries the first colour of the gradient, #ffffff; so in every  *)
(* layer each technique whose count is 0 has the colour #ffffff.           *)

C27_LayerZeroIsWhite(count_type, hide, layer) ==
    LET colors == calculate_color_thresholds(techniques, count_type)
    IN  colors # default_color_scheme =>
            /\ colors[1].key = <<"0">>
            /\ colors[1].color = "#ffffff"
            /\ \A k \in 1..Len(layer.techniques) :
                   get(TechniqueOf(layer.techniques[k]).stats, CountKey(count_type), 0) = 0
                       => layer.techniques[k].color = "#ffffff"

C27_ZeroCountIsWhite == EveryLayer(C27_LayerZeroIsWhite)

-----------------------------------------------------------------------------
(* C28: calculate_color_thresholds keeps the precondition of the gradient  *)
(* generator.  Whenever it calls generate_color_gradient, on the           *)
(* techniques analyze_data annotated, there are between 2 and 6 distinct   *)
(* breakpoints, so it asks for 3 to 7 steps and never for one step, the    *)
(* case that divides by zero.                                              *)

\* calculate_color_thresholds(techniques, count_type) reaches line 239
C28_CallsGenerator(count_type) ==
    /\ count_type \in valid_count_types
    /\ ExtractCounts(techniques, count_type) # <<>>
    /\ SeqMax(ExtractCounts(techniques, count_type)) # 0
    /\ ~quantiles_raises(ExtractCounts(techniques, count_type))

\* the steps argument of that call: len(thresholds) + 1
C28_Steps(count_type) == Len(Thresholds(ExtractCounts(techniques, count_type))) + 1

\* the precondition for one dimension, its counts being read once
C28_Kept(count_type, counts) ==
    (/\ count_type \in valid_count_types
     /\ counts # <<>>
     /\ SeqMax(counts) # 0
     /\ ~quantiles_raises(counts))
    => LET thresholds == Thresholds(counts)
       IN  /\ StrictlyIncreasing(thresholds)
           /\ Len(thresholds) \in 2..6
           /\ Len(thresholds) + 1 \in 3..7
           /\ Len(thresholds) + 1 # 1
           /\ Len(ColorMap(thresholds, BlueGradient[Len(thresholds) + 1]))
                  = Len(thresholds) + 1

C28_GeneratorPreconditionKept ==
    (pc # "idle" /\ error = NoError) =>
        \A count_type \in CountTypes :
            C28_Kept(count_type, ExtractCounts(techniques, count_type))

\* saved layers whose maps were generated with three steps and with six
C28_Witness ==
    /\ pc = "done"
    /\ \A type \in valid_count_types : passes[type].state = "finished"
    /\ \E count_type \in CountTypes :
           C28_CallsGenerator(count_type) /\ C28_Steps(count_type) = 3
    /\ \E count_type \in CountTypes :
           C28_CallsGenerator(count_type) /\ C28_Steps(count_type) = 6

-----------------------------------------------------------------------------
(* C29: after map_relationships_to_techniques on freshly loaded            *)
(* techniques, every relationship whose target_ref is a technique's id is  *)
(* in that technique exactly once, in mitigations when its type is         *)
(* 'mitigates' and in related_relationships otherwise, in the order of the *)
(* relationship list; no related_relationships holds a 'mitigates' record, *)
(* and after map_groups_to_techniques a technique has no more groups than  *)
(* related relationships.                                                  *)

\* how often r occurs in the list s
C29_Occurrences(s, r) == Cardinality({ i \in 1..Len(s) : s[i] = r })

\* the place of r in the relationship list (the ids are distinct)
C29_Place(r) == CHOOSE k \in 1..Len(relationships) : relationships[k] = r

C29_InListOrder(s) ==
    \A a, b \in 1..Len(s) : a < b => C29_Place(s[a]) < C29_Place(s[b])

C29_Mapped(technique) ==
    /\ \A k \in 1..Len(relationships) :
           relationships[k].target_ref = technique.id =>
               IF relationships[k].relationship_type = "mitigates"
               THEN /\ C29_Occurrences(technique.mitigations, relationships[k]) = 1
                    /\ C29_Occurrences(technique.related_relationships, relationships[k]) = 0
               ELSE /\ C29_Occurrences(technique.mitigations, relationships[k]) = 0
                    /\ C29_Occurrences(technique.related_relationships, relationships[k]) = 1
    /\ \A i \in 1..Len(technique.mitigations) :
           \E k \in 1..Len(relationships) : relationships[k] = technique.mitigations[i]
    /\ \A i \in 1..Len(technique.related_relationships) :
           \E k \in 1..Len(relationships) :
               relationships[k] = technique.related_relationships[i]
    /\ C29_InListOrder(technique.mitigations)
    /\ C29_InListOrder(technique.related_relationships)
    /\ \A i \in 1..Len(technique.related_relationships) :
           technique.related_relationships[i].relationship_type # "mitigates"

C29_RelationshipsFiledOnce ==
    /\ pc \in {"relationships_mapped", "groups_mapped"} =>
           \A i \in 1..Len(techniques) : C29_Mapped(techniques[i])
    /\ pc = "groups_mapped" =>
           \A i \in 1..Len(techniques) :
               Len(techniques[i].groups) <= Len(techniques[i].related_relationships)

\* a technique mapped with a relationship by a loaded group and, after it in the
\* list, a mitigation, a third relationship pointing to a technique that is not loaded
C29_Witness ==
    /\ pc = "groups_mapped"
    /\ Len(relationships) >= 3
    /\ relationships[1].relationship_type # "mitigates"
    /\ relationships[2].relationship_type = "mitigates"
    /\ \E k \in 1..Len(relationships) :
           \A i \in 1..Len(techniques) : techniques[i].id # relationships[k].target_ref
    /\ \E i \in 1..Len(techniques) :
           /\ Len(techniques[i].mitigations) = 1
           /\ Len(techniques[i].related_relationships) = 1
           /\ Len(techniques[i].groups) = 1

-----------------------------------------------------------------------------
(* C30: within one TechniqueMapper, over any sequence of                   *)
(* map_d3fend_to_technique calls, load_d3fend_technique_details returns at *)
(* most once per D3FEND id: what it returned the first time stays in       *)
(* d3fend_cache and is used from there, an empty result included, which is *)
(* never loaded again.                                                     *)

C30_Memoised(id) ==
    /\ loads'[id].returned <= 1
    /\ (loads'[id].returned = 1) <=> (id \in DOMAIN d3fend_cache')
    /\ id \in DOMAIN d3fend_cache =>
           /\ id \in DOMAIN d3fend_cache'
           /\ d3fend_cache'[id] = d3fend_cache[id]
           /\ loads'[id] = loads[id]

C30_LoadedAtMostOnce == [][\A id \in D3fendIds : C30_Memoised(id)]_vars

\* a later call visits an id whose load returned nothing and an id whose load
\* returned details, after a load that raised
C30_Witness ==
    /\ pc = "mapping"
    /\ Len(bindings) = MaxBindings
    /\ \A i \in 1..Len(bindings) : bindings[i].labelled
    /\ \E id \in D3fendIds :
           id \in DOMAIN d3fend_cache /\ d3fend_cache[id] = Nothing /\ loads[id].raised > 0
    /\ \E id \in D3fendIds : id \in DOMAIN d3fend_cache /\ d3fend_cache[id] = Details
    /\ \A id \in D3fendIds : \E i \in 1..Len(bindings) : def_tech_id(bindings[i]) = id

====
